---- MODULE Spec2Model ----
(***************************************************************************)
(* Content lifecycle of ForgeLens: the Content Store (Cosmos DB), the      *)
(* three Service Bus queues (media-generation, review-pending,             *)
(* review-approved), the generation worker with its automated review gate, *)
(* the human approval tools, the publisher and the communicator worker.    *)
(*                                                                         *)
(* Every await on the store or on a queue is a step of its own: the        *)
(* workers run in separate threads, so update_content (read the document,  *)
(* patch the copy, replace the whole document) is two steps, a read and a  *)
(* write of the whole document.  Calls to external providers touch no      *)
(* shared state and are folded into the step that follows the last shared  *)
(* access before them.                                                     *)
(***************************************************************************)
EXTENDS Naturals, FiniteSets, Sequences, TLC

(* ---- bounds ------------------------------------------------------------ *)
Ids == {"c1"}                 \* content IDs (uuid4 values of save_media_metadata)
MaxApproverCalls == 2         \* approve / reject / request_edits tool calls
MaxPipelineApprovals == 1     \* the same, beside the generation pipeline
MaxPublishApprovals == 1      \* the same, beside the publisher
MaxExtraCalls == 1            \* publish_content_by_id calls, queue_for_review
                              \* calls and duplicate deliveries, together
MaxJobs == 2                  \* provider jobs observed per record
MaxUploads == 2               \* blob uploads observed per record
MaxApiCalls == 2              \* publishes of one record observed
MaxAccountCalls == 2          \* queue_for_review calls of the account tools

(* ---- program constants ------------------------------------------------- *)
SEVERITY_THRESHOLD == 2
\* Azure Content Safety: the four categories and the severity scale 0..6
SafetyCategories == {"Hate", "SelfHarm", "Sexual", "Violence"}
MaxSeverity == 6
\* for _ in range(10) in _publish_record
ContainerChecks == 10

Procs == {"sub", "plan", "job", "lis", "pol", "apv1", "apv2", "pw", "mp", "com", "qfr",
          "qry", "rev", "rqs"}
ApproverProcs == {"apv1", "apv2"}
PublishProcs == {"pw", "mp"}
GenProcs == {"lis", "pol"}

MediaTypes == {"image", "video"}
\* target_account_id values of the account-bound tools
Accounts == {"a1", "a2"}
\* settings.INSTAGRAM_BUSINESS_ACCOUNT_ID: the account the record-creating tools
\* are bound to
INSTAGRAM_BUSINESS_ACCOUNT_ID == "a1"
None == "none"

(* ---- content documents -------------------------------------------------- *)
NoRec ==
  [ex |-> FALSE, media_type |-> "image", generation_status |-> "",
   media_review_status |-> "", approval_status |-> "", publish_status |-> "",
   blob_url |-> FALSE, fal_request_id |-> FALSE, generation_mode |-> "",
   reviewed_at |-> FALSE, reviewer_notes |-> "", media_reviewed_at |-> FALSE,
   instagram_media_id |-> FALSE, auto_notified_for_pending |-> FALSE,
   target_account_id |-> ""]

\* save_media_metadata as called by _create_content_record
NewRecord(mt) ==
  [ex |-> TRUE, media_type |-> mt, generation_status |-> "queued",
   media_review_status |-> "pending", approval_status |-> "pending",
   publish_status |-> "pending",
   blob_url |-> FALSE, fal_request_id |-> FALSE, generation_mode |-> "",
   reviewed_at |-> FALSE, reviewer_notes |-> "", media_reviewed_at |-> FALSE,
   instagram_media_id |-> FALSE, auto_notified_for_pending |-> FALSE,
   target_account_id |-> INSTAGRAM_BUSINESS_ACCOUNT_ID]

\* dict.update: the fields of upd replace those of item
Patch(item, upd) ==
  [f \in DOMAIN item |-> IF f \in DOMAIN upd THEN upd[f] ELSE item[f]]

VARIABLES
  store,      \* Content Store: content ID -> document (NoRec when absent)
  created,    \* content IDs already handed out by save_media_metadata
  genQ,       \* media-generation queue: content ID -> number of messages
  pendQ,      \* review-pending queue: content ID -> number of messages
  pendItems,  \* of these, the messages queue_for_review sent: they carry a copy
              \* of the item ("id", status pending); content ID -> account -> number
  apprQ,      \* review-approved queue
  pc,         \* position of every process
  cur,        \* content ID a process is working on
  rec,        \* the document a handler read at its start
  item,       \* the copy update_content read and is about to write back
  arg,        \* arguments / intermediate results of the running call
  res,        \* what the step just taken returned to its caller (NoRes: nothing)
  pitems,     \* the poller's list of submitted documents for this tick
  budget,     \* remaining calls of the bounded operations
  hist        \* per content ID: what has happened so far (observation only)

vars == <<store, created, genQ, pendQ, pendItems, apprQ, pc, cur, rec, item, arg, res,
          pitems, budget, hist>>

\* kind/notes: the tool call's arguments; found: the approval_status its read
\* of the record found; verdict/status/l1/raised/llm/exc: the
\* review gate's result; pre: the handler runs on a precomputed (sync) result;
\* late: the publish attempt began after a publish of the record had succeeded;
\* result: status and error of the dict publish_content_by_id returned to the
\* Publisher Worker; checks: check_container_status calls of the attempt so far
NoArg == [kind |-> "", notes |-> "", found |-> "", verdict |-> "", status |-> "",
          l1 |-> "", raised |-> {}, llm |-> FALSE, exc |-> FALSE,
          pre |-> FALSE, late |-> FALSE, result |-> <<>>, checks |-> 0,
          account |-> ""]
\* SafetyResult(): safe, no category, nothing blocked, no error
NoSafety ==
  [safe |-> TRUE, categories |-> [c \in {} |-> 0], blocked_categories |-> {},
   error |-> FALSE]

\* of a status query also, tool: the tool called, account: the
\* target_account_id the tool is bound to ("": to none), value: the dict it
\* returned, as a document; of review_text, content_safety: the SafetyResult
\* in the dict it returned
Result(p, r, st, dt) ==
  [proc |-> p, id |-> r, status |-> st, detail |-> dt, value |-> NoRec,
   account |-> "", tool |-> "", content_safety |-> NoSafety]
NoRes == Result("", None, "", "")
ReturnsFor(p, r, st, dt) == res' = Result(p, r, st, dt)
Returns(p, st, dt) == ReturnsFor(p, cur[p], st, dt)

NoHist ==
  [jobs |-> 0, uploads |-> 0, apiCalls |-> 0,
   approvedWritten |-> FALSE, everPublished |-> FALSE, everNotified |-> FALSE]

NoBudget == [apv |-> 0, extra |-> 0]

\* nothing has been submitted yet
Fresh ==
  /\ store = [r \in Ids |-> NoRec]
  /\ created = {}
  /\ genQ = [r \in Ids |-> 0]
  /\ pendQ = [r \in Ids |-> 0]
  /\ pendItems = [r \in Ids |-> [a \in Accounts |-> 0]]
  /\ apprQ = [r \in Ids |-> 0]
  /\ pc = [p \in Procs |-> "idle"]
  /\ cur = [p \in Procs |-> None]
  /\ rec = [p \in Procs |-> NoRec]
  /\ item = [p \in Procs |-> NoRec]
  /\ arg = [p \in Procs |-> NoArg]
  /\ res = NoRes
  /\ pitems = <<>>
  /\ hist = [r \in Ids |-> NoHist]

Init ==
  /\ Fresh
  /\ budget = NoBudget

(* ---- helpers on the state ------------------------------------------------ *)
Goto(p, l) == pc' = [pc EXCEPT ![p] = l]

\* the process returns to its loop / the call returns
Done(p) ==
  /\ pc' = [pc EXCEPT ![p] = "idle"]
  /\ cur' = [cur EXCEPT ![p] = None]
  /\ rec' = [rec EXCEPT ![p] = NoRec]
  /\ item' = [item EXCEPT ![p] = NoRec]
  /\ arg' = [arg EXCEPT ![p] = NoArg]

Bump(r, f) == hist' = [hist EXCEPT ![r][f] = @ + 1]
Mark(r, f) == hist' = [hist EXCEPT ![r][f] = TRUE]

\* update_content, second half: item.update(updates); replace_item(whole item)
update_content_write(p, upd) ==
  store' = [store EXCEPT ![cur[p]] = Patch(item[p], upd)]

(* ---- submission: generate_image / generate_video -------------------------- *)
\* _create_content_record: the document is created in generation_status queued
generate_media(r, mt) ==
  /\ pc["sub"] = "idle"
  /\ r \notin created
  /\ store' = [store EXCEPT ![r] = NewRecord(mt)]
  /\ created' = created \cup {r}
  /\ cur' = [cur EXCEPT !["sub"] = r]
  /\ res' = NoRes
  /\ Goto("sub", "sub_send")
  /\ UNCHANGED <<genQ, pendQ, pendItems, apprQ, rec, item, arg, pitems, budget, hist>>

\* send_message_to_media_generation_queue; when it raises the document is
\* deleted (delete_media_metadata swallows its own failure: deleted = FALSE)
generate_media_send(ok, deleted) ==
  /\ pc["sub"] = "sub_send"
  /\ LET r == cur["sub"] IN
       IF ok
       THEN /\ genQ' = [genQ EXCEPT ![r] = @ + 1]
            /\ Returns("sub", "queued", "")
            /\ UNCHANGED store
       ELSE /\ store' = IF deleted THEN [store EXCEPT ![r] = NoRec] ELSE store
            /\ Returns("sub", "error", "queue")
            /\ UNCHANGED genQ
  /\ Done("sub")
  /\ UNCHANGED <<created, pendQ, pendItems, apprQ, pitems, budget, hist>>

(* ---- GenerationQueueService: content plans ---------------------------------- *)
\* save_media_metadata as called by GenerationQueueService.create_content_record
\* (the document of services.media_metadata_service has no media_review_status)
PlanRecord(mt) ==
  [NewRecord(mt) EXCEPT !.generation_status = "pending_review",
                        !.approval_status = "pending_review",
                        !.media_review_status = ""]

\* create_content_record: the plan is saved without a generation message
create_content_record(r, mt) ==
  /\ pc["plan"] = "idle"
  /\ r \notin created
  /\ store' = [store EXCEPT ![r] = PlanRecord(mt)]
  /\ created' = created \cup {r}
  /\ ReturnsFor("plan", r, "pending_review", "")
  /\ UNCHANGED <<genQ, pendQ, pendItems, apprQ, pc, cur, rec, item, arg, pitems, budget, hist>>

\* submit_to_queue, called for a plan that waits for its review:
\* update_content({generation_status: queued, approval_status:
\* approved_by_reviewer}), the read
submit_to_queue_read(r) ==
  /\ pc["plan"] = "idle"
  /\ store[r].ex /\ store[r].generation_status = "pending_review"
  /\ cur' = [cur EXCEPT !["plan"] = r]
  /\ item' = [item EXCEPT !["plan"] = store[r]]
  /\ Goto("plan", "plan_upd_write")
  /\ res' = NoRes
  /\ UNCHANGED <<store, created, genQ, pendQ, pendItems, apprQ, rec, arg, pitems, budget, hist>>

submit_to_queue_write ==
  /\ pc["plan"] = "plan_upd_write"
  /\ IF ~store[cur["plan"]].ex
     THEN /\ Returns("plan", "raised", "store")
          /\ Done("plan")
          /\ UNCHANGED store
     ELSE /\ update_content_write("plan",
               [generation_status |-> "queued",
                approval_status |-> "approved_by_reviewer"])
          /\ Goto("plan", "plan_send")
          /\ res' = NoRes
          /\ UNCHANGED <<cur, rec, item, arg>>
  /\ UNCHANGED <<created, genQ, pendQ, pendItems, apprQ, pitems, budget, hist>>

\* sender.send_messages to media-generation; when it raises the status is
\* reverted "so it can be retried" and the exception is raised again
submit_to_queue_send(ok) ==
  /\ pc["plan"] = "plan_send"
  /\ IF ok
     THEN /\ genQ' = [genQ EXCEPT ![cur["plan"]] = @ + 1]
          /\ Returns("plan", "queued", "")
          /\ Done("plan")
     ELSE /\ Goto("plan", "plan_rev_read")
          /\ res' = NoRes
          /\ UNCHANGED <<genQ, cur, rec, item, arg>>
  /\ UNCHANGED <<store, created, pendQ, pendItems, apprQ, pitems, budget, hist>>

\* update_content({generation_status: pending_review}), the read
submit_to_queue_revert_read ==
  /\ pc["plan"] = "plan_rev_read"
  /\ item' = [item EXCEPT !["plan"] = store[cur["plan"]]]
  /\ Goto("plan", "plan_rev_write")
  /\ res' = NoRes
  /\ UNCHANGED <<store, created, genQ, pendQ, pendItems, apprQ, cur, rec, arg, pitems, budget, hist>>

submit_to_queue_revert_write ==
  /\ pc["plan"] = "plan_rev_write"
  /\ IF ~store[cur["plan"]].ex
     THEN UNCHANGED store
     ELSE update_content_write("plan", [generation_status |-> "pending_review"])
  /\ Returns("plan", "raised", "queue")
  /\ Done("plan")
  /\ UNCHANGED <<created, genQ, pendQ, pendItems, apprQ, pitems, budget, hist>>

(* ---- insta_post_generator: in-process generation jobs ----------------------- *)
\* save_media_metadata as called by submit_generation_job
JobRecord(mt) ==
  [NewRecord(mt) EXCEPT !.generation_status = "submitted",
                        !.media_review_status = ""]

\* submit_generation_job: the document is created in generation_status
\* submitted and _run_generation_job is started as a task
submit_generation_job(r, mt) ==
  /\ pc["job"] = "idle"
  /\ r \notin created
  /\ store' = [store EXCEPT ![r] = JobRecord(mt)]
  /\ created' = created \cup {r}
  /\ cur' = [cur EXCEPT !["job"] = r]
  /\ Goto("job", "job_run_read")
  /\ ReturnsFor("job", r, "submitted", "")
  /\ UNCHANGED <<genQ, pendQ, pendItems, apprQ, rec, item, arg, pitems, budget, hist>>

\* _mark_job_status -> update_content, the read (running, completed, failed)
_mark_job_status_read ==
  /\ pc["job"] \in {"job_run_read", "job_done_read", "job_fail_read"}
  /\ item' = [item EXCEPT !["job"] = store[cur["job"]]]
  /\ Goto("job", CASE pc["job"] = "job_run_read" -> "job_run_write"
                   [] pc["job"] = "job_done_read" -> "job_done_write"
                   [] OTHER -> "job_fail_write")
  /\ res' = NoRes
  /\ UNCHANGED <<store, created, genQ, pendQ, pendItems, apprQ, cur, rec, arg, pitems, budget, hist>>

\* _mark_job_status -> update_content, the write
_mark_job_status_write ==
  /\ pc["job"] \in {"job_run_write", "job_done_write", "job_fail_write"}
  /\ store' = IF ~store[cur["job"]].ex THEN store
              ELSE [store EXCEPT ![cur["job"]] =
                      Patch(item["job"],
                            CASE pc["job"] = "job_run_write" ->
                                   [generation_status |-> "running"]
                              [] pc["job"] = "job_done_write" ->
                                   [generation_status |-> "completed", blob_url |-> TRUE]
                              [] OTHER -> [generation_status |-> "failed"])]
  /\ IF pc["job"] = "job_run_write"
     THEN /\ Goto("job", "job_exec")
          /\ UNCHANGED <<cur, rec, item, arg>>
     ELSE Done("job")
  /\ res' = NoRes
  /\ UNCHANGED <<created, genQ, pendQ, pendItems, apprQ, pitems, budget, hist>>

\* _execute_image_job / _execute_video_job: subscribe, download, upload_blob;
\* an exception makes _run_generation_job mark the job failed
_execute_job(ok) ==
  /\ pc["job"] = "job_exec"
  /\ IF ok
     THEN /\ hist[cur["job"]].jobs < MaxJobs /\ hist[cur["job"]].uploads < MaxUploads
          /\ hist' = [hist EXCEPT ![cur["job"]].jobs = @ + 1,
                                  ![cur["job"]].uploads = @ + 1]
          /\ Goto("job", "job_done_read")
     ELSE /\ Goto("job", "job_fail_read")
          /\ UNCHANGED hist
  /\ res' = NoRes
  /\ UNCHANGED <<store, created, genQ, pendQ, pendItems, apprQ, cur, rec, item, arg, pitems, budget>>

(* ---- generation worker, loop 1: queue listener ---------------------------- *)
\* _listen_queue_receive without the check that generation_status is queued
_listen_queue_receive_unguarded(r) ==
  /\ pc["lis"] = "idle"
  /\ genQ[r] > 0
  /\ cur' = [cur EXCEPT !["lis"] = r]
  /\ rec' = [rec EXCEPT !["lis"] = store[r]]
  /\ IF ~store[r].ex
     THEN Goto("lis", "lis_complete")
     ELSE Goto("lis", "lis_generate")
  /\ UNCHANGED <<store, created, genQ, pendQ, pendItems, apprQ, item, arg, pitems, budget, hist>>
  /\ res' = NoRes

\* a message is received (it stays locked in the queue until completed) and
\* _submit_generation reads the document and checks generation_status
_listen_queue_receive(r) ==
  /\ pc["lis"] = "idle"
  /\ genQ[r] > 0
  /\ cur' = [cur EXCEPT !["lis"] = r]
  /\ rec' = [rec EXCEPT !["lis"] = store[r]]
  /\ IF ~store[r].ex \/ store[r].generation_status # "queued"
     THEN Goto("lis", "lis_complete")
     ELSE Goto("lis", "lis_generate")
  /\ UNCHANGED <<store, created, genQ, pendQ, pendItems, apprQ, item, arg, pitems, budget, hist>>
  /\ res' = NoRes

GenerateOutcomes == {"raise", "sync", "sync_no_url", "async", "async_no_request_id"}

\* _submit_generation_provider in a loop body that completes the message in
\* its except clause as well
_submit_generation_provider_completing(o) ==
  /\ pc["lis"] = "lis_generate"
  /\ o \in {"sync", "sync_no_url"} => rec["lis"].media_type = "image"
  /\ LET r == cur["lis"] IN
       CASE o = "async" ->
              /\ hist[r].jobs < MaxJobs
              /\ Bump(r, "jobs")
              /\ Goto("lis", "lis_upd_read")
              /\ UNCHANGED <<cur, rec, item, arg>>
         [] o = "sync" ->
              /\ hist[r].jobs < MaxJobs
              /\ Bump(r, "jobs")
              /\ Goto("lis", "lis_sync_upd_read")
              /\ UNCHANGED <<cur, rec, item, arg>>
         [] OTHER ->
              /\ Goto("lis", "lis_complete")
              /\ UNCHANGED <<cur, rec, item, arg, hist>>
  /\ UNCHANGED <<store, created, genQ, pendQ, pendItems, apprQ, pitems, budget>>
  /\ IF o \in {"async", "sync"} THEN res' = NoRes ELSE Returns("lis", "raised", "provider")

\* the provider call of _submit_generation and the checks on its answer
_submit_generation_provider(o) ==
  /\ pc["lis"] = "lis_generate"
  /\ o \in {"sync", "sync_no_url"} => rec["lis"].media_type = "image"
  /\ LET r == cur["lis"] IN
       CASE o = "async" ->
              /\ hist[r].jobs < MaxJobs
              /\ Bump(r, "jobs")
              /\ Goto("lis", "lis_upd_read")
              /\ UNCHANGED <<cur, rec, item, arg>>
         [] o = "sync" ->
              /\ hist[r].jobs < MaxJobs
              /\ Bump(r, "jobs")
              /\ Goto("lis", "lis_sync_upd_read")
              /\ UNCHANGED <<cur, rec, item, arg>>
         [] OTHER ->
              \* the exception leaves the loop body: the message is not completed
              /\ Done("lis")
              /\ UNCHANGED hist
  /\ UNCHANGED <<store, created, genQ, pendQ, pendItems, apprQ, pitems, budget>>
  /\ IF o \in {"async", "sync"} THEN res' = NoRes ELSE Returns("lis", "raised", "provider")

\* update_content({generation_status: submitted, fal_request_id, ...})
_submit_generation_update_read(fails) ==
  /\ pc["lis"] \in {"lis_upd_read", "lis_sync_upd_read"}
  /\ IF fails
     THEN /\ Done("lis")
          /\ Returns("lis", "raised", "store")
     ELSE /\ res' = NoRes
          /\ item' = [item EXCEPT !["lis"] = store[cur["lis"]]]
          /\ Goto("lis", IF ~store[cur["lis"]].ex
                         THEN (IF pc["lis"] = "lis_upd_read"
                               THEN "lis_complete" ELSE "hc_fetch")
                         ELSE (IF pc["lis"] = "lis_upd_read"
                               THEN "lis_upd_write" ELSE "lis_sync_upd_write"))
          /\ arg' = [arg EXCEPT !["lis"].pre = (pc["lis"] = "lis_sync_upd_read")]
          /\ UNCHANGED <<cur, rec>>
  /\ UNCHANGED <<store, created, genQ, pendQ, pendItems, apprQ, pitems, budget, hist>>

_submit_generation_update_write ==
  /\ pc["lis"] \in {"lis_upd_write", "lis_sync_upd_write"}
  /\ IF ~store[cur["lis"]].ex
     THEN \* replace_item of a deleted document raises
          /\ Done("lis")
          /\ Returns("lis", "raised", "store")
          /\ UNCHANGED store
     ELSE /\ res' = NoRes
          /\ IF pc["lis"] = "lis_upd_write"
             THEN /\ update_content_write("lis",
                       [generation_status |-> "submitted", fal_request_id |-> TRUE,
                        generation_mode |-> "async"])
                  /\ Goto("lis", "lis_complete")
             ELSE /\ update_content_write("lis",
                       [generation_status |-> "completed", generation_mode |-> "sync"])
                  /\ Goto("lis", "hc_fetch")
          /\ UNCHANGED <<cur, rec, item, arg>>
  /\ UNCHANGED <<created, genQ, pendQ, pendItems, apprQ, pitems, budget, hist>>

\* receiver.complete_message
_listen_queue_complete ==
  /\ pc["lis"] = "lis_complete"
  /\ genQ' = [genQ EXCEPT ![cur["lis"]] = IF @ > 0 THEN @ - 1 ELSE 0]
  /\ Done("lis")
  /\ UNCHANGED <<store, created, pendQ, pendItems, apprQ, pitems, budget, hist>>
  /\ res' = NoRes

\* receive_messages raises: the call is outside the try of _listen_queue, so
\* the exception ends _listen_queue, asyncio.gather passes it on to _run, and
\* asyncio.run cancels the poller's task and returns: the worker's thread ends
_listen_queue_receive_raises ==
  /\ pc["lis"] = "idle"
  /\ pc["pol"] # "dead"
  /\ pc' = [pc EXCEPT !["lis"] = "dead", !["pol"] = "dead"]
  /\ cur' = [cur EXCEPT !["pol"] = None]
  /\ rec' = [rec EXCEPT !["pol"] = NoRec]
  /\ item' = [item EXCEPT !["pol"] = NoRec]
  /\ arg' = [arg EXCEPT !["pol"] = NoArg]
  /\ pitems' = <<>>
  /\ ReturnsFor("lis", None, "raised", "receive")
  /\ UNCHANGED <<store, created, genQ, pendQ, pendItems, apprQ, budget, hist>>

\* the worker's process ends while a handler is running (the worker's thread
\* is a daemon thread): both loops stop where they are, nothing is completed,
\* the locks of the messages in hand expire
worker_crash ==
  /\ \E p \in GenProcs : pc[p] \notin {"idle", "dead", "crashed"}
  /\ pc' = [pc EXCEPT !["lis"] = "crashed", !["pol"] = "crashed"]
  /\ cur' = [cur EXCEPT !["lis"] = None, !["pol"] = None]
  /\ rec' = [rec EXCEPT !["lis"] = NoRec, !["pol"] = NoRec]
  /\ item' = [item EXCEPT !["lis"] = NoRec, !["pol"] = NoRec]
  /\ arg' = [arg EXCEPT !["lis"] = NoArg, !["pol"] = NoArg]
  /\ pitems' = <<>>
  /\ res' = NoRes
  /\ UNCHANGED <<store, created, genQ, pendQ, pendItems, apprQ, budget, hist>>

\* start_media_generation_worker in the process started next
start_media_generation_worker ==
  /\ pc["lis"] = "crashed"
  /\ pc' = [pc EXCEPT !["lis"] = "idle", !["pol"] = "idle"]
  /\ res' = NoRes
  /\ UNCHANGED <<store, created, genQ, pendQ, pendItems, apprQ, cur, rec, item, arg, pitems,
                 budget, hist>>

(* ---- generation worker: _handle_completed and the review gate ------------- *)
\* an exception leaves _handle_completed: the listener does not complete its
\* message, the poller's tick ends
Abort(p) ==
  /\ Done(p)
  /\ pitems' = IF p = "pol" THEN <<>> ELSE pitems

\* _handle_completed returns: the listener completes its message, the poller
\* goes on with the next item of its list
Return(p) ==
  IF p = "lis"
  THEN /\ Goto(p, "lis_complete")
       /\ arg' = [arg EXCEPT ![p] = NoArg]
       /\ UNCHANGED <<cur, rec, item, pitems>>
  ELSE IF pitems # <<>>
       THEN /\ Goto(p, "pol_item")
            /\ cur' = [cur EXCEPT ![p] = None]
            /\ rec' = [rec EXCEPT ![p] = NoRec]
            /\ item' = [item EXCEPT ![p] = NoRec]
            /\ arg' = [arg EXCEPT ![p] = NoArg]
            /\ UNCHANGED pitems
       ELSE /\ Done(p)
            /\ UNCHANGED pitems

\* what the first lines of _handle_completed do: the provider's result call
\* raises, the download or upload_blob raises, or the asset is uploaded
FetchOutcomes == {"result_raises", "upload_raises", "uploaded"}

\* result (unless precomputed), download and upload_blob; an exception leaves
\* _handle_completed and reaches the caller's except clause
_handle_completed_fetch(p, o) ==
  /\ pc[p] = "hc_fetch"
  /\ o = "result_raises" => ~arg[p].pre
  /\ IF o = "uploaded"
     THEN /\ hist[cur[p]].uploads < MaxUploads
          /\ Bump(cur[p], "uploads")
          /\ Goto(p, "hc_upd1_read")
          /\ res' = NoRes
          /\ UNCHANGED <<cur, rec, item, arg, pitems>>
     ELSE /\ Abort(p)
          /\ Returns(p, "raised", IF o = "result_raises" THEN "result" ELSE "upload")
          /\ UNCHANGED hist
  /\ UNCHANGED <<store, created, genQ, pendQ, pendItems, apprQ, budget>>

\* update_content(extra_updates), the read
_handle_completed_update_read(p, fails) ==
  /\ pc[p] = "hc_upd1_read"
  /\ IF fails
     THEN /\ Abort(p)
          /\ Returns(p, "raised", "store")
     ELSE /\ res' = NoRes
          /\ item' = [item EXCEPT ![p] = store[cur[p]]]
          /\ Goto(p, IF store[cur[p]].ex THEN "hc_upd1_write" ELSE "gate_read")
          /\ UNCHANGED <<cur, rec, arg, pitems>>
  /\ UNCHANGED <<store, created, genQ, pendQ, pendItems, apprQ, budget, hist>>

_handle_completed_update_write(p) ==
  /\ pc[p] = "hc_upd1_write"
  /\ IF ~store[cur[p]].ex
     THEN /\ Abort(p)
          /\ Returns(p, "raised", "store")
          /\ UNCHANGED store
     ELSE /\ res' = NoRes
          /\ update_content_write(p,
               [generation_status |-> "completed", blob_url |-> TRUE,
                media_review_status |-> "pending", approval_status |-> "pending"])
          /\ Goto(p, "gate_read")
          /\ UNCHANGED <<cur, rec, item, arg, pitems>>
  /\ UNCHANGED <<created, genQ, pendQ, pendItems, apprQ, budget, hist>>

(* ---- content safety service and LLM reviewer ------------------------------ *)
GateCategories == {"Hate", "Violence"}
\* the severities on both sides of the threshold
GateSeverities == {SEVERITY_THRESHOLD - 1, SEVERITY_THRESHOLD}

\* what the safety service answers: it raises, or a severity per category
SafetyAnswers ==
  {[raised |-> TRUE, sev |-> [c \in GateCategories |-> SEVERITY_THRESHOLD - 1]]} \cup
  {[raised |-> FALSE, sev |-> f] : f \in [GateCategories -> GateSeverities]}

\* analyze with the comparison off by one: a severity equal to the threshold
\* passes
analyze_above_only(a) ==
  IF a.raised
  THEN [safe |-> TRUE, blocked_categories |-> {}, error |-> TRUE]
  ELSE LET blocked == {c \in DOMAIN a.sev : a.sev[c] > SEVERITY_THRESHOLD}
       IN [safe |-> blocked = {}, blocked_categories |-> blocked, error |-> FALSE]

\* analyze_text / analyze_image_from_url: the SafetyResult
analyze(a) ==
  IF a.raised
  THEN [safe |-> TRUE, blocked_categories |-> {}, error |-> TRUE]
  ELSE LET blocked == {c \in DOMAIN a.sev : a.sev[c] >= SEVERITY_THRESHOLD}
       IN [safe |-> blocked = {}, blocked_categories |-> blocked, error |-> FALSE]

\* what the LLM call produces: the value of "verdict" in its JSON answer, an
\* answer without that key, text that is not JSON, JSON that is not an object
\* (json.loads returns it and llm_result.get raises), or an exception
LLMAnswers == {"APPROVED", "approved", "REJECTED", "NEEDS_REVISION", "UNSURE",
               "", "missing", "non_json", "non_object", "raise"}

\* str.strip().upper() on the answers above
StripUpper(v) == IF v = "approved" THEN "APPROVED" ELSE v

\* _llm_review_image / _llm_review_text followed by
\* str(llm_result.get("verdict", "NEEDS_REVISION")).strip().upper()
llm_verdict(o) ==
  IF o \in {"missing", "non_json", "raise"} THEN "NEEDS_REVISION" ELSE StripUpper(o)

\* status_map with 'approved' as the default of the lookup
status_map_default_approved(v) ==
  CASE v = "APPROVED" -> "approved"
    [] v = "REJECTED" -> "rejected"
    [] v = "NEEDS_REVISION" -> "needs_revision"
    [] OTHER -> "approved"

status_map(v) ==
  CASE v = "APPROVED" -> "approved"
    [] v = "REJECTED" -> "rejected"
    [] v = "NEEDS_REVISION" -> "needs_revision"
    [] OTHER -> "needs_revision"

\* review_generated_media up to its call of set_media_review_status
review_generated_media(doc, img, txt, llm) ==
  IF ~doc.ex \/ ~doc.blob_url
  THEN [NoArg EXCEPT !.verdict = "", !.status = ""]
  ELSE LET image_safety == analyze(img)
           text_safety == analyze(txt)
           isImage == doc.media_type = "image"
       IN IF isImage /\ ~image_safety.safe
          THEN [NoArg EXCEPT !.verdict = "REJECTED", !.status = "rejected",
                             !.l1 = "blocked"]
          ELSE IF ~text_safety.safe
          THEN [NoArg EXCEPT !.verdict = "REJECTED", !.status = "rejected",
                             !.l1 = "blocked",
                             !.raised = IF isImage /\ image_safety.error
                                        THEN {"safety"} ELSE {}]
          ELSE IF llm = "non_object"
          THEN [NoArg EXCEPT !.l1 = "passed", !.llm = TRUE, !.exc = TRUE]
          ELSE [NoArg EXCEPT !.verdict = llm_verdict(llm),
                             !.status = status_map(llm_verdict(llm)),
                             !.l1 = "passed", !.llm = TRUE,
                             !.raised =
                               (IF (isImage /\ image_safety.error) \/ text_safety.error
                                THEN {"safety"} ELSE {}) \cup
                               (IF llm = "raise" THEN {"llm"} ELSE {})]

\* the worker's decision after the gate (media_generation_worker.py:300-308);
\* without a verdict it looks at text_content_safety, which the gate's result
\* carries exactly when layer 1 passed (the reviewable text always holds the
\* media type, so the text analysis always runs)
should_block(review_result) ==
  IF review_result.verdict # ""
  THEN review_result.verdict # "APPROVED"
  ELSE ~(review_result.l1 = "passed")

\* review_generated_media: get_content_by_id, both layers; an exception of the
\* gate is caught by the worker, which returns
review_gate_read(p, img, txt, llm) ==
  /\ pc[p] = "gate_read"
  /\ LET rr == review_generated_media(store[cur[p]], img, txt, llm) IN
       IF rr.exc
       THEN Return(p)
       ELSE /\ arg' = [arg EXCEPT ![p] = [rr EXCEPT !.pre = arg[p].pre]]
            /\ Goto(p, IF rr.status = "" THEN "hc_decide" ELSE "gate_upd_read")
            /\ UNCHANGED <<cur, rec, item, pitems>>
  /\ UNCHANGED <<store, created, genQ, pendQ, pendItems, apprQ, budget, hist>>
  /\ res' = NoRes

\* set_media_review_status -> update_content, the read; a failure of the store
\* is an exception of the gate, which the worker catches and returns
review_gate_update_read(p, fails) ==
  /\ pc[p] = "gate_upd_read"
  /\ IF fails
     THEN Return(p)
     ELSE /\ item' = [item EXCEPT ![p] = store[cur[p]]]
          /\ Goto(p, IF store[cur[p]].ex THEN "gate_upd_write" ELSE "hc_decide")
          /\ UNCHANGED <<cur, rec, arg, pitems>>
  /\ UNCHANGED <<store, created, genQ, pendQ, pendItems, apprQ, budget, hist>>
  /\ res' = NoRes

review_gate_update_write(p) ==
  /\ pc[p] = "gate_upd_write"
  /\ IF ~store[cur[p]].ex
     THEN /\ Return(p)
          /\ UNCHANGED store
     ELSE /\ update_content_write(p,
               [media_review_status |-> arg[p].status, media_reviewed_at |-> TRUE])
          /\ Goto(p, "hc_decide")
          /\ UNCHANGED <<cur, rec, item, arg, pitems>>
  /\ UNCHANGED <<created, genQ, pendQ, pendItems, apprQ, budget, hist>>
  /\ res' = NoRes

\* if should_block: return
_handle_completed_decide(p) ==
  /\ pc[p] = "hc_decide"
  /\ IF should_block(arg[p])
     THEN Return(p)
     ELSE /\ Goto(p, "hc_send")
          /\ UNCHANGED <<cur, rec, item, arg, pitems>>
  /\ UNCHANGED <<store, created, genQ, pendQ, pendItems, apprQ, budget, hist>>
  /\ res' = NoRes

\* send_message_to_review_pending_queue; a failure is logged
_handle_completed_send(p, ok) ==
  /\ pc[p] = "hc_send"
  /\ IF ok
     THEN /\ pendQ' = [pendQ EXCEPT ![cur[p]] = @ + 1]
          /\ UNCHANGED pendItems
          /\ Goto(p, "hc_upd2_read")
          /\ UNCHANGED <<cur, rec, item, arg, pitems>>
     ELSE /\ Return(p)
          /\ UNCHANGED <<pendQ, pendItems>>
  /\ UNCHANGED <<store, created, genQ, apprQ, budget, hist>>
  /\ res' = NoRes

\* update_content({approval_status: pending}) after the enqueue
_handle_completed_final_read(p, fails) ==
  /\ pc[p] = "hc_upd2_read"
  /\ IF fails \/ ~store[cur[p]].ex
     THEN Return(p)
     ELSE /\ item' = [item EXCEPT ![p] = store[cur[p]]]
          /\ Goto(p, "hc_upd2_write")
          /\ UNCHANGED <<cur, rec, arg, pitems>>
  /\ UNCHANGED <<store, created, genQ, pendQ, pendItems, apprQ, budget, hist>>
  /\ res' = NoRes

_handle_completed_final_write(p) ==
  /\ pc[p] = "hc_upd2_write"
  /\ IF ~store[cur[p]].ex
     THEN UNCHANGED store
     ELSE update_content_write(p, [approval_status |-> "pending"])
  /\ Return(p)
  /\ UNCHANGED <<created, genQ, pendQ, pendItems, apprQ, budget, hist>>
  /\ res' = NoRes

(* ---- generation worker, loop 2: progress poller ---------------------------- *)
OlderId == "c0"
OrderedIds == <<OlderId, "c1">>

IsSubmitted(r) == store[r].ex /\ store[r].generation_status = "submitted"
\* the records of the container that the query selects
InQuery(r) == r \in DOMAIN store /\ IsSubmitted(r)

\* _check_submitted_items: the query for generation_status = 'submitted'
_check_submitted_items ==
  /\ pc["pol"] = "idle"
  /\ \E r \in DOMAIN store : IsSubmitted(r)
  /\ pitems' = [i \in 1..Len(SelectSeq(OrderedIds, InQuery)) |->
                  [id |-> SelectSeq(OrderedIds, InQuery)[i],
                   doc |-> store[SelectSeq(OrderedIds, InQuery)[i]]]]
  /\ Goto("pol", "pol_item")
  /\ UNCHANGED <<store, created, genQ, pendQ, pendItems, apprQ, cur, rec, item, arg, budget, hist>>
  /\ res' = NoRes

StatusAnswers == {"raise", "in_progress", "completed"}

\* one iteration of the loop over the submitted items; an exception of the
\* status call is logged and the loop goes on with the next item
_check_submitted_item(st) ==
  /\ pc["pol"] = "pol_item"
  /\ pitems # <<>>
  /\ LET it == Head(pitems)
         skip == it.doc.generation_mode # "async" \/ ~it.doc.fal_request_id
     IN /\ IF ~skip /\ st = "completed"
           THEN /\ cur' = [cur EXCEPT !["pol"] = it.id]
                /\ rec' = [rec EXCEPT !["pol"] = it.doc]
                /\ pitems' = Tail(pitems)
                /\ Goto("pol", "hc_fetch")
                /\ UNCHANGED <<item, arg>>
           ELSE /\ pitems' = Tail(pitems)
                /\ IF Tail(pitems) = <<>>
                   THEN Done("pol")
                   ELSE UNCHANGED <<pc, cur, rec, item, arg>>
        /\ IF ~skip /\ st = "raise"
           THEN ReturnsFor("pol", it.id, "raised", "status")
           ELSE res' = NoRes
  /\ UNCHANGED <<store, created, genQ, pendQ, pendItems, apprQ, budget, hist>>

(* ---- human approval gate: approve_item / reject_item / request_edits ------- *)
Notes == {"", "lgtm"}
ApproverKinds == {"approved", "rejected", "edit_requested"}

\* approver_read without the check that approval_status is pending
approver_read_unguarded(p, kind, r, notes) ==
  /\ pc[p] = "idle"
  /\ p = "apv2" => pc["apv1"] # "idle"
  /\ budget.apv > 0
  /\ budget' = [budget EXCEPT !.apv = @ - 1]
  /\ IF ~store[r].ex
     THEN /\ ReturnsFor(p, r, "error", "not_found")
          /\ UNCHANGED <<pc, cur, rec, arg>>
     ELSE /\ res' = NoRes
          /\ cur' = [cur EXCEPT ![p] = r]
          /\ arg' = [arg EXCEPT ![p] = [NoArg EXCEPT !.kind = kind, !.notes = notes,
                                               !.found = store[r].approval_status]]
          /\ Goto(p, "apv_upd_read")
          /\ UNCHANGED rec
  /\ UNCHANGED <<store, created, genQ, pendQ, pendItems, apprQ, item, pitems, hist>>

\* get_content_by_id and the two guards of the tool; a call takes the first
\* free slot of ApproverProcs
approver_read(p, kind, r, notes) ==
  /\ pc[p] = "idle"
  /\ p = "apv2" => pc["apv1"] # "idle"
  /\ budget.apv > 0
  /\ budget' = [budget EXCEPT !.apv = @ - 1]
  /\ IF ~store[r].ex
     THEN /\ ReturnsFor(p, r, "error", "not_found")
          /\ UNCHANGED <<pc, cur, rec, arg>>
     ELSE IF store[r].approval_status # "pending"
     THEN /\ ReturnsFor(p, r, "error", store[r].approval_status)
          /\ UNCHANGED <<pc, cur, rec, arg>>
     ELSE /\ res' = NoRes
          /\ cur' = [cur EXCEPT ![p] = r]
          /\ arg' = [arg EXCEPT ![p] = [NoArg EXCEPT !.kind = kind, !.notes = notes,
                                               !.found = store[r].approval_status]]
          /\ Goto(p, "apv_upd_read")
          /\ UNCHANGED rec
  /\ UNCHANGED <<store, created, genQ, pendQ, pendItems, apprQ, item, pitems, hist>>

\* set_approval_status -> update_content, the read
set_approval_status_read(p) ==
  /\ pc[p] = "apv_upd_read"
  /\ IF ~store[cur[p]].ex
     THEN /\ Returns(p, "error", "update_failed")
          /\ Done(p)
     ELSE /\ item' = [item EXCEPT ![p] = store[cur[p]]]
          /\ Goto(p, "apv_upd_write")
          /\ res' = NoRes
          /\ UNCHANGED <<cur, rec, arg>>
  /\ UNCHANGED <<store, created, genQ, pendQ, pendItems, apprQ, pitems, budget, hist>>

\* set_approval_status_write that goes on without having written anything
set_approval_status_write_skipped(p) ==
  /\ pc[p] = "apv_upd_write"
  /\ IF arg[p].kind = "approved"
     THEN /\ Goto(p, "apv_send")
          /\ res' = NoRes
          /\ UNCHANGED <<cur, rec, item, arg>>
     ELSE /\ Returns(p, arg[p].kind, arg[p].notes)
          /\ Done(p)
  /\ UNCHANGED <<store, created, genQ, pendQ, pendItems, apprQ, pitems, budget, hist>>

\* set_approval_status -> update_content, the write; reject_item and
\* request_edits return here, approve_item goes on to forward the item
set_approval_status_write(p) ==
  /\ pc[p] = "apv_upd_write"
  /\ IF ~store[cur[p]].ex
     THEN /\ Returns(p, "raised", "store")
          /\ Done(p)
          /\ UNCHANGED <<store, hist>>
     ELSE /\ update_content_write(p,
               [approval_status |-> arg[p].kind, reviewed_at |-> TRUE,
                reviewer_notes |-> arg[p].notes])
          /\ hist' = [hist EXCEPT ![cur[p]].approvedWritten =
                        @ \/ arg[p].kind = "approved"]
          /\ IF arg[p].kind = "approved"
             THEN /\ Goto(p, "apv_send")
                  /\ res' = NoRes
                  /\ UNCHANGED <<cur, rec, item, arg>>
             ELSE /\ Returns(p, arg[p].kind, arg[p].notes)
                  /\ Done(p)
  /\ UNCHANGED <<created, genQ, pendQ, pendItems, apprQ, pitems, budget>>

\* approve_item_send that takes the approval back when the send fails
approve_item_send_rollback(p, ok) ==
  /\ pc[p] = "apv_send"
  /\ apprQ' = IF ok THEN [apprQ EXCEPT ![cur[p]] = @ + 1] ELSE apprQ
  /\ store' = IF ok \/ ~store[cur[p]].ex THEN store
              ELSE [store EXCEPT ![cur[p]].approval_status = "pending"]
  /\ Returns(p, IF ok THEN "approved" ELSE "error",
                IF ok THEN "forwarded" ELSE "forward_failed")
  /\ Done(p)
  /\ UNCHANGED <<created, genQ, pendQ, pendItems, pitems, budget, hist>>

\* approve_item: forward {"content_id": item_id} to review-approved; a failure
\* of the send is logged and the call still returns status approved
approve_item_send(p, ok) ==
  /\ pc[p] = "apv_send"
  /\ apprQ' = IF ok THEN [apprQ EXCEPT ![cur[p]] = @ + 1] ELSE apprQ
  /\ Returns(p, "approved", IF ok THEN "forwarded" ELSE "forward_failed")
  /\ Done(p)
  /\ UNCHANGED <<store, created, genQ, pendQ, pendItems, pitems, budget, hist>>

(* ---- publisher: PublisherQueueWorker and publish_content_by_id ------------- *)
\* a publish attempt ends: the tool call returns; in the worker
\* publish_content_by_id returns its dict to _process, which logs it and
\* returns, and run_forever goes on to complete the message
Finish(p) ==
  IF p = "pw"
  THEN /\ Goto(p, "pw_complete")
       /\ rec' = [rec EXCEPT ![p] = NoRec]
       /\ item' = [item EXCEPT ![p] = NoRec]
       /\ arg' = [arg EXCEPT ![p] = [NoArg EXCEPT !.result = <<res'.status, res'.detail>>]]
       /\ UNCHANGED cur
  ELSE Done(p)

\* _process_skip without the check of media_review_status
_process_skip_without_media_review(d) ==
  \/ ~d.ex
  \/ d.approval_status # "approved"
  \/ d.publish_status = "published"

\* the guards of PublisherQueueWorker._process on the document it read
_process_skip(d) ==
  \/ ~d.ex
  \/ d.approval_status # "approved"
  \/ d.media_review_status # "approved"
  \/ d.publish_status = "published"

\* PublisherQueueWorker: receive a message, _process reads the document and
\* checks approval_status, media_review_status and publish_status.  _process
\* begins by importing send_publish_confirmation from agents.publisher.tools,
\* a name the module in src/ does not define: where the import raises
\* (imported = FALSE) _process raises before it reads anything and the message
\* is not completed
_process_read(r, imported) ==
  /\ pc["pw"] = "idle"
  /\ apprQ[r] > 0
  /\ IF ~imported
     THEN /\ ReturnsFor("pw", r, "raised", "import")
          /\ UNCHANGED <<pc, cur, arg>>
     ELSE /\ cur' = [cur EXCEPT !["pw"] = r]
          /\ LET d == store[r] IN
               /\ Goto("pw", IF _process_skip(d) THEN "pw_complete" ELSE "pub_read")
               /\ IF d.ex /\ d.approval_status = "approved"
                       /\ d.media_review_status = "approved"
                       /\ d.publish_status = "published"
                  THEN ReturnsFor("pw", r, "skipped", "already_published")
                  ELSE IF _process_skip(d)
                  THEN ReturnsFor("pw", r, "skipped", "")
                  ELSE res' = NoRes
          /\ arg' = [arg EXCEPT !["pw"] = [NoArg EXCEPT !.late = hist[r].everPublished]]
  /\ UNCHANGED <<store, created, genQ, pendQ, pendItems, apprQ, rec, item, pitems, budget, hist>>

\* the publish_content_by_id tool is called
publish_content_by_id_call(r) ==
  /\ pc["mp"] = "idle"
  /\ budget.extra > 0
  /\ budget' = [budget EXCEPT !.extra = @ - 1]
  /\ cur' = [cur EXCEPT !["mp"] = r]
  /\ arg' = [arg EXCEPT !["mp"] = [NoArg EXCEPT !.late = hist[r].everPublished]]
  /\ res' = NoRes
  /\ Goto("mp", "pub_read")
  /\ UNCHANGED <<store, created, genQ, pendQ, pendItems, apprQ, rec, item, pitems, hist>>

\* the guards of _publish_record on the document: "" when it may publish
_publish_record_guard(d) ==
  IF d.approval_status # "approved" THEN "not_approved"
  ELSE IF d.publish_status = "published" THEN "already_published"
  ELSE IF ~d.blob_url THEN "no_blob_url"
  ELSE ""

\* publish_content_by_id: get_content_by_id, then the guards of _publish_record
\* publish_content_by_id that passes whatever get_content_by_id returned on to
\* _publish_record
publish_content_by_id_read_unchecked(p) ==
  /\ pc[p] = "pub_read"
  /\ LET d == store[cur[p]] IN
       IF _publish_record_guard(d) # ""
       THEN /\ Returns(p, IF _publish_record_guard(d) = "already_published"
                          THEN "ok" ELSE "error", _publish_record_guard(d))
            /\ Finish(p)
       ELSE /\ rec' = [rec EXCEPT ![p] = d]
            /\ Goto(p, "pub_api")
            /\ res' = NoRes
            /\ UNCHANGED <<cur, item, arg>>
  /\ UNCHANGED <<store, created, genQ, pendQ, pendItems, apprQ, pitems, budget, hist>>

publish_content_by_id_read(p) ==
  /\ pc[p] = "pub_read"
  /\ LET d == store[cur[p]] IN
       IF ~d.ex
       THEN /\ Returns(p, "error", "not_found")
            /\ Finish(p)
       ELSE IF _publish_record_guard(d) # ""
       THEN /\ Returns(p, IF _publish_record_guard(d) = "already_published"
                          THEN "ok" ELSE "error", _publish_record_guard(d))
            /\ Finish(p)
       ELSE /\ rec' = [rec EXCEPT ![p] = d]
            /\ Goto(p, "pub_api")
            /\ res' = NoRes
            /\ UNCHANGED <<cur, item, arg>>
  /\ UNCHANGED <<store, created, genQ, pendQ, pendItems, apprQ, pitems, budget, hist>>

ApiOutcomes == {"published", "raise", "container"}

\* _publish_record: the first calls to the Instagram API.  For an image
\* create_image_container and publish_container, then ReviewQueueService.
\* mark_published, which finds no message whose body has the id and returns
\* an error; for a video create_video_container, after which the container
\* is polled
_publish_record_api(p, o) ==
  /\ pc[p] = "pub_api"
  /\ o = "container" <=> (rec[p].media_type = "video" /\ o # "raise")
  /\ hist[cur[p]].apiCalls < MaxApiCalls
  /\ Bump(cur[p], "apiCalls")
  /\ CASE o = "published" ->
            /\ Goto(p, "pub_mark_read")
            /\ res' = NoRes
            /\ UNCHANGED <<cur, rec, item, arg>>
       [] o = "container" ->
            /\ Goto(p, "pub_poll")
            /\ res' = NoRes
            /\ UNCHANGED <<cur, rec, item, arg>>
       [] OTHER ->
            /\ Returns(p, "error", o)
            /\ Finish(p)
  /\ UNCHANGED <<store, created, genQ, pendQ, pendItems, apprQ, pitems, budget>>

\* what check_container_status answers: a status_code, or it raises
ContainerStatuses == {"FINISHED", "ERROR", "IN_PROGRESS", "raise"}

\* check_container_status whose loop has no else clause: after the last
\* iteration the code after the loop runs
check_container_status_without_else(p, st) ==
  /\ pc[p] = "pub_poll"
  /\ arg[p].checks < ContainerChecks
  /\ CASE st = "FINISHED" \/ (st = "IN_PROGRESS" /\ arg[p].checks + 1 = ContainerChecks) ->
            /\ Goto(p, "pub_publish")
            /\ arg' = [arg EXCEPT ![p].checks = 0, ![p].status = st]
            /\ res' = NoRes
            /\ UNCHANGED <<cur, rec, item>>
       [] st = "IN_PROGRESS" ->
            /\ arg' = [arg EXCEPT ![p].checks = @ + 1, ![p].status = st]
            /\ res' = NoRes
            /\ UNCHANGED <<pc, cur, rec, item>>
       [] OTHER ->
            /\ Returns(p, "error", IF st = "ERROR" THEN "video_error" ELSE "raise")
            /\ Finish(p)
  /\ UNCHANGED <<store, created, genQ, pendQ, pendItems, apprQ, pitems, budget, hist>>

\* one iteration of the for loop over range(10): sleep, check_container_status,
\* break on FINISHED (the loop is over and its count with it), return on
\* ERROR; the else clause of the loop returns the timeout when the last
\* iteration ends without a break
check_container_status(p, st) ==
  /\ pc[p] = "pub_poll"
  /\ arg[p].checks < ContainerChecks
  /\ CASE st = "FINISHED" ->
            /\ Goto(p, "pub_publish")
            /\ arg' = [arg EXCEPT ![p].checks = 0, ![p].status = st]
            /\ res' = NoRes
            /\ UNCHANGED <<cur, rec, item>>
       [] st = "IN_PROGRESS" /\ arg[p].checks + 1 < ContainerChecks ->
            /\ arg' = [arg EXCEPT ![p].checks = @ + 1, ![p].status = st]
            /\ res' = NoRes
            /\ UNCHANGED <<pc, cur, rec, item>>
       [] OTHER ->
            /\ Returns(p, "error", CASE st = "ERROR" -> "video_error"
                                     [] st = "raise" -> "raise"
                                     [] OTHER -> "video_timeout")
            /\ Finish(p)
  /\ UNCHANGED <<store, created, genQ, pendQ, pendItems, apprQ, pitems, budget, hist>>

\* publish_container after the loop was left by break, then mark_published
publish_container(p, ok) ==
  /\ pc[p] = "pub_publish"
  /\ IF ok
     THEN /\ Goto(p, "pub_mark_read")
          /\ arg' = [arg EXCEPT ![p].status = ""]
          /\ res' = NoRes
          /\ UNCHANGED <<cur, rec, item>>
     ELSE /\ Returns(p, "error", "raise")
          /\ Finish(p)
  /\ UNCHANGED <<store, created, genQ, pendQ, pendItems, apprQ, pitems, budget, hist>>

\* mark_content_published -> update_content, the read
mark_content_published_read(p, fails) ==
  /\ pc[p] = "pub_mark_read"
  /\ IF fails
     THEN /\ Returns(p, "error", "raise")
          /\ Finish(p)
     ELSE IF ~store[cur[p]].ex
     THEN /\ Returns(p, "published", "no_record")
          /\ Finish(p)
     ELSE /\ item' = [item EXCEPT ![p] = store[cur[p]]]
          /\ Goto(p, "pub_mark_write")
          /\ res' = NoRes
          /\ UNCHANGED <<cur, rec, arg>>
  /\ UNCHANGED <<store, created, genQ, pendQ, pendItems, apprQ, pitems, budget, hist>>

\* mark_content_published -> update_content, the write
mark_content_published_write(p) ==
  /\ pc[p] = "pub_mark_write"
  /\ IF ~store[cur[p]].ex
     THEN /\ Returns(p, "error", "raise")
          /\ UNCHANGED <<store, hist>>
     ELSE /\ update_content_write(p,
               [publish_status |-> "published", instagram_media_id |-> TRUE])
          /\ Mark(cur[p], "everPublished")
          /\ Returns(p, "published", "")
  /\ Finish(p)
  /\ UNCHANGED <<created, genQ, pendQ, pendItems, apprQ, pitems, budget>>

\* receiver.complete_message after _process returned
_process_complete ==
  /\ pc["pw"] = "pw_complete"
  /\ apprQ' = [apprQ EXCEPT ![cur["pw"]] = IF @ > 0 THEN @ - 1 ELSE 0]
  /\ Done("pw")
  /\ res' = NoRes
  /\ UNCHANGED <<store, created, genQ, pendQ, pendItems, pitems, budget, hist>>

(* ---- communicator worker ---------------------------------------------------- *)
\* receive a review-pending message; _process reads the document, skips it if
\* auto_notified_for_pending is set, else sends the notification (ok = FALSE:
\* notify_new_review raises and the message is not completed)
communicator_process_read(r, ok) ==
  /\ pc["com"] = "idle"
  /\ pendQ[r] > 0
  /\ IF ~store[r].ex \/ store[r].auto_notified_for_pending
     THEN /\ cur' = [cur EXCEPT !["com"] = r]
          /\ Goto("com", "com_complete")
          /\ UNCHANGED hist
     ELSE IF ok
     THEN /\ cur' = [cur EXCEPT !["com"] = r]
          /\ Goto("com", "com_upd_read")
          /\ Mark(r, "everNotified")
     ELSE UNCHANGED <<pc, cur, hist>>
  /\ UNCHANGED <<store, created, genQ, pendQ, pendItems, apprQ, rec, item, arg, pitems, budget>>
  /\ res' = NoRes

\* update_content({auto_notified_for_pending: True, ...}) raises: the exception
\* leaves _process, run_forever logs it and does not complete the message
communicator_update_raises ==
  /\ pc["com"] = "com_upd_read"
  /\ Returns("com", "raised", "store")
  /\ Done("com")
  /\ UNCHANGED <<store, created, genQ, pendQ, pendItems, apprQ, pitems, budget, hist>>

\* update_content({auto_notified_for_pending: True, ...}), the read
communicator_update_read ==
  /\ pc["com"] = "com_upd_read"
  /\ item' = [item EXCEPT !["com"] = store[cur["com"]]]
  /\ Goto("com", IF store[cur["com"]].ex THEN "com_upd_write" ELSE "com_complete")
  /\ UNCHANGED <<store, created, genQ, pendQ, pendItems, apprQ, cur, rec, arg, pitems, budget, hist>>
  /\ res' = NoRes

communicator_update_write ==
  /\ pc["com"] = "com_upd_write"
  /\ IF ~store[cur["com"]].ex
     THEN /\ Done("com")
          /\ UNCHANGED store
     ELSE /\ update_content_write("com", [auto_notified_for_pending |-> TRUE])
          /\ Goto("com", "com_complete")
          /\ UNCHANGED <<cur, rec, item, arg>>
  /\ UNCHANGED <<created, genQ, pendQ, pendItems, apprQ, pitems, budget, hist>>
  /\ res' = NoRes

\* the messages of a content ID that queue_for_review sent
Copies(r) == pendItems[r]["a1"] + pendItems[r]["a2"]

\* complete_message(msg); k: the account whose queue_for_review sent the
\* message received, None for a message of the generation worker
communicator_complete(k) ==
  /\ pc["com"] = "com_complete"
  /\ IF k = None
     THEN /\ pendQ[cur["com"]] > Copies(cur["com"]) \/ pendQ[cur["com"]] = 0
          /\ UNCHANGED pendItems
     ELSE /\ pendItems[cur["com"]][k] > 0
          /\ pendItems' = [pendItems EXCEPT ![cur["com"]][k] = @ - 1]
  /\ pendQ' = [pendQ EXCEPT ![cur["com"]] = IF @ > 0 THEN @ - 1 ELSE 0]
  /\ Done("com")
  /\ UNCHANGED <<store, created, genQ, apprQ, pitems, budget, hist>>
  /\ res' = NoRes

(* ---- ReviewQueueService.queue_for_review ----------------------------------- *)
\* a: the target_account_id the calling tool passes (never empty here);
\* db_item = get_content_by_id(item_id); of db_item only publish_status is
\* used afterwards
queue_for_review_read(r, a) ==
  /\ pc["qfr"] = "idle"
  /\ budget.extra > 0
  /\ budget' = [budget EXCEPT !.extra = @ - 1]
  /\ cur' = [cur EXCEPT !["qfr"] = r]
  /\ arg' = [arg EXCEPT !["qfr"] = [NoArg EXCEPT !.status = store[r].publish_status,
                                                 !.account = a]]
  /\ Goto("qfr", IF store[r].ex THEN "qfr_upd_read" ELSE "qfr_send")
  /\ UNCHANGED <<store, created, genQ, pendQ, pendItems, apprQ, rec, item, pitems, hist>>
  /\ res' = NoRes

\* update_content(item_id, {approval_status: pending, publish_status:
\* db_item.publish_status, target_account_id: target_account_id or ..., ...}),
\* the read
queue_for_review_update_read ==
  /\ pc["qfr"] = "qfr_upd_read"
  /\ item' = [item EXCEPT !["qfr"] = store[cur["qfr"]]]
  /\ Goto("qfr", IF store[cur["qfr"]].ex THEN "qfr_upd_write" ELSE "qfr_send")
  /\ UNCHANGED <<store, created, genQ, pendQ, pendItems, apprQ, cur, rec, arg, pitems, budget, hist>>
  /\ res' = NoRes

queue_for_review_update_write ==
  /\ pc["qfr"] = "qfr_upd_write"
  /\ IF ~store[cur["qfr"]].ex
     THEN /\ Done("qfr")
          /\ UNCHANGED store
     ELSE /\ update_content_write("qfr",
               [approval_status |-> "pending",
                publish_status |-> arg["qfr"].status,
                target_account_id |-> arg["qfr"].account])
          /\ Goto("qfr", "qfr_send")
          /\ UNCHANGED <<cur, rec, item, arg>>
  /\ UNCHANGED <<created, genQ, pendQ, pendItems, apprQ, pitems, budget, hist>>
  /\ res' = NoRes

\* sender.send_messages(json.dumps(item)) to review-pending
queue_for_review_send(ok) ==
  /\ pc["qfr"] = "qfr_send"
  /\ pendQ' = IF ok THEN [pendQ EXCEPT ![cur["qfr"]] = @ + 1] ELSE pendQ
  /\ pendItems' = IF ok
       THEN [pendItems EXCEPT ![cur["qfr"]][arg["qfr"].account] = @ + 1]
       ELSE pendItems
  /\ Done("qfr")
  /\ UNCHANGED <<store, created, genQ, apprQ, pitems, budget, hist>>
  /\ res' = NoRes

(* ---- ReviewQueueService: approve_item / reject_item / request_edits --------- *)
\* _transition_item: receive_messages from the review-pending queue and the
\* search for the message whose body has the id (the messages queue_for_review
\* sent; every other message is abandoned); a: the account whose message is
\* found
_transition_item_receive(r, kind, notes, a) ==
  /\ pc["rqs"] = "idle"
  /\ budget.apv > 0
  /\ budget' = [budget EXCEPT !.apv = @ - 1]
  /\ IF Copies(r) = 0
     THEN /\ ReturnsFor("rqs", r, "error", "not_in_pending_queue")
          /\ UNCHANGED <<pc, cur, arg>>
     ELSE /\ pendItems[r][a] > 0
          /\ cur' = [cur EXCEPT !["rqs"] = r]
          /\ arg' = [arg EXCEPT !["rqs"] = [NoArg EXCEPT !.kind = kind,
                                                        !.notes = notes,
                                                        !.account = a]]
          /\ Goto("rqs", "ti_complete")
          /\ res' = NoRes
  /\ UNCHANGED <<store, created, genQ, pendQ, pendItems, apprQ, rec, item, pitems,
                 hist>>

\* receiver.complete_message(msg): the message leaves the review-pending
\* queue; when the call raises, the message stays and the exception leaves
\* _transition_item
_transition_item_complete(ok) ==
  /\ pc["rqs"] = "ti_complete"
  /\ IF ok
     THEN /\ pendQ' = [pendQ EXCEPT ![cur["rqs"]] = @ - 1]
          /\ pendItems' = [pendItems EXCEPT ![cur["rqs"]][arg["rqs"].account] = @ - 1]
          /\ Goto("rqs", "ti_upd_read")
          /\ res' = NoRes
          /\ UNCHANGED <<cur, rec, item, arg>>
     ELSE /\ Returns("rqs", "raised", "complete")
          /\ Done("rqs")
          /\ UNCHANGED <<pendQ, pendItems>>
  /\ UNCHANGED <<store, created, genQ, apprQ, pitems, budget, hist>>

\* what _transition_item does after set_approval_status: an approval goes on
\* to the send, the other decisions return the body
_transition_item_after_update ==
  IF arg["rqs"].kind = "approved"
  THEN /\ Goto("rqs", "ti_send")
       /\ res' = NoRes
       /\ UNCHANGED <<cur, rec, item, arg>>
  ELSE /\ Returns("rqs", arg["rqs"].kind, arg["rqs"].notes)
       /\ Done("rqs")

\* set_approval_status -> update_content, the read; a failure of the store is
\* an exception that leaves _transition_item, a missing record is not
_transition_item_update_read(fails) ==
  /\ pc["rqs"] = "ti_upd_read"
  /\ IF fails
     THEN /\ Returns("rqs", "raised", "store")
          /\ Done("rqs")
     ELSE IF ~store[cur["rqs"]].ex
     THEN _transition_item_after_update
     ELSE /\ item' = [item EXCEPT !["rqs"] = store[cur["rqs"]]]
          /\ Goto("rqs", "ti_upd_write")
          /\ res' = NoRes
          /\ UNCHANGED <<cur, rec, arg>>
  /\ UNCHANGED <<store, created, genQ, pendQ, pendItems, apprQ, pitems, budget, hist>>

_transition_item_update_write ==
  /\ pc["rqs"] = "ti_upd_write"
  /\ IF ~store[cur["rqs"]].ex
     THEN /\ Returns("rqs", "raised", "store")
          /\ Done("rqs")
          /\ UNCHANGED <<store, hist>>
     ELSE /\ update_content_write("rqs",
               [approval_status |-> arg["rqs"].kind, reviewed_at |-> TRUE,
                reviewer_notes |-> arg["rqs"].notes])
          /\ hist' = [hist EXCEPT ![cur["rqs"]].approvedWritten =
                        @ \/ arg["rqs"].kind = "approved"]
          /\ _transition_item_after_update
  /\ UNCHANGED <<created, genQ, pendQ, pendItems, apprQ, pitems, budget>>

\* sender.send_messages(approved_msg); when the send raises, the exception
\* leaves _transition_item
_transition_item_send(ok) ==
  /\ pc["rqs"] = "ti_send"
  /\ IF ok
     THEN /\ apprQ' = [apprQ EXCEPT ![cur["rqs"]] = @ + 1]
          /\ Returns("rqs", "approved", "forwarded")
     ELSE /\ UNCHANGED apprQ
          /\ Returns("rqs", "raised", "send")
  /\ Done("rqs")
  /\ UNCHANGED <<store, created, genQ, pendQ, pendItems, pitems, budget, hist>>

(* ---- the queues deliver at least once -------------------------------------- *)
DuplicateDelivery(q, r) ==
  /\ budget.extra > 0
  /\ budget' = [budget EXCEPT !.extra = @ - 1]
  /\ CASE q = "gen" -> /\ genQ[r] > 0
                       /\ genQ' = [genQ EXCEPT ![r] = @ + 1]
                       /\ UNCHANGED <<pendQ, pendItems, apprQ>>
       [] q = "pend" -> /\ pendQ[r] > 0
                        /\ pendQ' = [pendQ EXCEPT ![r] = @ + 1]
                        /\ UNCHANGED <<genQ, pendItems, apprQ>>
       [] q = "appr" -> /\ apprQ[r] > 0
                        /\ apprQ' = [apprQ EXCEPT ![r] = @ + 1]
                        /\ UNCHANGED <<genQ, pendQ, pendItems>>
  /\ UNCHANGED <<store, created, pc, cur, rec, item, arg, pitems, hist>>
  /\ res' = NoRes

(* ---- status queries ----------------------------------------------------------- *)
\* the dict a query builds from a document: the keys fs, every other key absent
Fields(doc, fs) ==
  [f \in DOMAIN NoRec |-> IF f \in fs \cup {"ex"} THEN doc[f] ELSE NoRec[f]]

\* the query of a tool bound to account a returns the dict doc, built from the
\* store or from a queue message
Answer(t, r, a, doc, from) ==
  res' = [Result("qry", r, "ok", from) EXCEPT !.value = doc, !.account = a,
                                              !.tool = t]

\* the query returns {"error": ...}
Refuses(t, r, a, why) ==
  res' = [Result("qry", r, "error", why) EXCEPT !.account = a, !.tool = t]

QueryLeaves ==
  UNCHANGED <<store, created, genQ, pendQ, pendItems, apprQ, pitems, budget, hist>>

\* approver tools: item = get_content_by_id(item_id), every key of it
view_details(r) ==
  /\ pc["qry"] = "idle"
  /\ IF store[r].ex
     THEN Answer("view_details", r, "", store[r], "store")
     ELSE Refuses("view_details", r, "", "not_found")
  /\ UNCHANGED <<pc, cur, rec, item, arg>>
  /\ QueryLeaves

\* publisher tools: {"status": "ok", "content": record}
get_content_details(r) ==
  /\ pc["qry"] = "idle"
  /\ IF store[r].ex
     THEN Answer("get_content_details", r, "", store[r], "store")
     ELSE Refuses("get_content_details", r, "", "not_found")
  /\ UNCHANGED <<pc, cur, rec, item, arg>>
  /\ QueryLeaves

\* insta_account tools: get_review_status of the tools build_account_tools binds
\* to the target_account_id a
insta_account_get_review_status(r, a) ==
  /\ pc["qry"] = "idle"
  /\ IF ~store[r].ex
     THEN Refuses("insta_account.get_review_status", r, a, "not_found")
     ELSE IF store[r].target_account_id # a
     THEN Refuses("insta_account.get_review_status", r, a, "access_denied")
     ELSE Answer("insta_account.get_review_status", r, a, Fields(store[r], {"media_review_status", "approval_status",
                                      "generation_status", "publish_status",
                                      "blob_url", "media_reviewed_at"}), "store")
  /\ UNCHANGED <<pc, cur, rec, item, arg>>
  /\ QueryLeaves

\* get_review_status that goes on to the queue service whatever account the
\* record has
get_review_status_unchecked(r, a) ==
  /\ pc["qry"] = "idle"
  /\ IF ~store[r].ex
     THEN /\ Refuses("account.get_review_status", r, a, "not_found")
          /\ UNCHANGED <<pc, cur, rec, arg>>
     ELSE /\ Goto("qry", "qry_peek")
          /\ cur' = [cur EXCEPT !["qry"] = r]
          /\ rec' = [rec EXCEPT !["qry"] = store[r]]
          /\ arg' = [arg EXCEPT !["qry"] = [NoArg EXCEPT !.account = a]]
          /\ res' = NoRes
  /\ UNCHANGED item
  /\ QueryLeaves

\* get_review_status of the tools build_account_internal_tools binds to account
\* a (account_name and target_account_id of one profile):
\* record = get_content_by_id(item_id) and the access check on it
get_review_status(r, a) ==
  /\ pc["qry"] = "idle"
  /\ IF ~store[r].ex
     THEN /\ Refuses("account.get_review_status", r, a, "not_found")
          /\ UNCHANGED <<pc, cur, rec, arg>>
     ELSE IF store[r].target_account_id # a
     THEN /\ Refuses("account.get_review_status", r, a, "access_denied")
          /\ UNCHANGED <<pc, cur, rec, arg>>
     ELSE /\ Goto("qry", "qry_peek")
          /\ cur' = [cur EXCEPT !["qry"] = r]
          /\ rec' = [rec EXCEPT !["qry"] = store[r]]
          /\ arg' = [arg EXCEPT !["qry"] = [NoArg EXCEPT !.account = a]]
          /\ res' = NoRes
  /\ UNCHANGED item
  /\ QueryLeaves

\* the item queue_for_review of account a sent for the content ID
QueuedItem(a) ==
  [NoRec EXCEPT !.ex = TRUE, !.approval_status = "pending",
                !.target_account_id = a]

\* ReviewQueueService.get_review_status: _peek_queue(review-pending) keeps
\* the messages of the service's account; one whose "id" is item_id is
\* returned as it is (its target_account_id passes the tool's second check)
ReviewQueueService_get_review_status_peek ==
  /\ pc["qry"] = "qry_peek"
  /\ IF pendItems[cur["qry"]][arg["qry"].account] > 0
     THEN /\ Answer("account.get_review_status", cur["qry"], arg["qry"].account,
                    QueuedItem(arg["qry"].account), "queue")
          /\ Done("qry")
     ELSE /\ Goto("qry", "qry_read")
          /\ res' = NoRes
          /\ UNCHANGED <<cur, rec, item, arg>>
  /\ QueryLeaves

\* no message of review-approved carries an "id"; db_item =
\* get_content_by_id(item_id), then the tool's second access check
ReviewQueueService_get_review_status_read ==
  /\ pc["qry"] = "qry_read"
  /\ LET d == store[cur["qry"]] IN
       IF ~d.ex
       THEN Refuses("account.get_review_status", cur["qry"], arg["qry"].account, "not_found")
       ELSE IF d.target_account_id # "" /\ d.target_account_id # arg["qry"].account
       THEN Refuses("account.get_review_status", cur["qry"], arg["qry"].account, "access_denied")
       ELSE Answer("account.get_review_status", cur["qry"], arg["qry"].account,
                   Fields(d, {"approval_status", "publish_status",
                              "target_account_id", "reviewed_at",
                              "reviewer_notes"}), "store")
  /\ Done("qry")
  /\ QueryLeaves

(* ---- the system -------------------------------------------------------------- *)
Submission ==
  \/ \E r \in Ids, mt \in MediaTypes : generate_media(r, mt)
  \/ \E ok \in BOOLEAN, deleted \in BOOLEAN : generate_media_send(ok, deleted)

Listener ==
  \/ \E r \in Ids : _listen_queue_receive(r)
  \/ \E o \in GenerateOutcomes : _submit_generation_provider(o)
  \/ \E f \in BOOLEAN : _submit_generation_update_read(f)
  \/ _submit_generation_update_write
  \/ _listen_queue_complete

Poller ==
  \/ _check_submitted_items
  \/ \E st \in StatusAnswers : _check_submitted_item(st)

HandleCompleted ==
  \E p \in GenProcs :
    \/ \E o \in FetchOutcomes : _handle_completed_fetch(p, o)
    \/ \E f \in BOOLEAN : _handle_completed_update_read(p, f)
    \/ _handle_completed_update_write(p)
    \/ _handle_completed_decide(p)
    \/ \E ok \in BOOLEAN : _handle_completed_send(p, ok)
    \/ \E f \in BOOLEAN : _handle_completed_final_read(p, f)
    \/ _handle_completed_final_write(p)

ReviewGate ==
  \E p \in GenProcs :
    \/ \E img \in SafetyAnswers, txt \in SafetyAnswers, llm \in LLMAnswers :
         review_gate_read(p, img, txt, llm)
    \/ \E f \in BOOLEAN : review_gate_update_read(p, f)
    \/ review_gate_update_write(p)

Approver ==
  \E p \in ApproverProcs :
    \/ \E k \in ApproverKinds, r \in Ids, n \in Notes : approver_read(p, k, r, n)
    \/ set_approval_status_read(p)
    \/ set_approval_status_write(p)
    \/ \E ok \in BOOLEAN : approve_item_send(p, ok)

Publisher ==
  \/ \E r \in Ids, imported \in BOOLEAN : _process_read(r, imported)
  \/ \E r \in Ids : publish_content_by_id_call(r)
  \/ _process_complete
  \/ \E p \in PublishProcs :
       \/ publish_content_by_id_read(p)
       \/ \E o \in ApiOutcomes : _publish_record_api(p, o)
       \/ \E st \in ContainerStatuses : check_container_status(p, st)
       \/ \E ok \in BOOLEAN : publish_container(p, ok)
       \/ \E f \in BOOLEAN : mark_content_published_read(p, f)
       \/ mark_content_published_write(p)

Communicator ==
  \/ \E r \in Ids, ok \in BOOLEAN : communicator_process_read(r, ok)
  \/ communicator_update_read
  \/ communicator_update_write
  \/ \E k \in Accounts \cup {None} : communicator_complete(k)

QueueForReview ==
  \/ \E r \in Ids : queue_for_review_read(r, INSTAGRAM_BUSINESS_ACCOUNT_ID)
  \/ queue_for_review_update_read
  \/ queue_for_review_update_write
  \/ \E ok \in BOOLEAN : queue_for_review_send(ok)

\* queue_for_review of the tools of any account
AccountQueueForReview ==
  \/ \E r \in Ids, a \in Accounts : queue_for_review_read(r, a)
  \/ queue_for_review_update_read
  \/ queue_for_review_update_write
  \/ \E ok \in BOOLEAN : queue_for_review_send(ok)

StatusQuery ==
  \/ \E r \in Ids : view_details(r)
  \/ \E r \in Ids : get_content_details(r)
  \/ \E r \in Ids, a \in Accounts : insta_account_get_review_status(r, a)
  \/ \E r \in Ids, a \in Accounts : get_review_status(r, a)
  \/ ReviewQueueService_get_review_status_peek
  \/ ReviewQueueService_get_review_status_read

Redelivery == \E q \in {"gen", "pend", "appr"}, r \in Ids : DuplicateDelivery(q, r)

\* generation pipeline: submission, the two loops of the worker, the gate
Next ==
  \/ Submission
  \/ Listener
  \/ Poller
  \/ HandleCompleted
  \/ ReviewGate

Spec == Init /\ [][Next]_vars

\* the generation pipeline with the human approval gate beside it
InitApprove ==
  /\ Fresh
  /\ budget = [NoBudget EXCEPT !.apv = MaxPipelineApprovals]

NextApprove ==
  \/ Submission
  \/ Listener
  \/ Poller
  \/ HandleCompleted
  \/ ReviewGate
  \/ Approver

SpecApprove == InitApprove /\ [][NextApprove]_vars

\* the document the poller fetched for a job of media type mt
SubmittedRecord(mt) ==
  [NewRecord(mt) EXCEPT !.generation_status = "submitted",
                        !.fal_request_id = TRUE, !.generation_mode = "async"]

\* a record right after the generation worker enqueued it for human review:
\* the gate approved it, the poller's _handle_completed has sent the
\* review-pending message and is about to update approval_status
Enqueued(r, mt) ==
  /\ store = [i \in Ids |-> IF i = r
                THEN [SubmittedRecord(mt) EXCEPT
                        !.generation_status = "completed", !.blob_url = TRUE,
                        !.media_review_status = "approved",
                        !.media_reviewed_at = TRUE]
                ELSE NoRec]
  /\ created = {r}
  /\ genQ = [i \in Ids |-> 0]
  /\ pendQ = [i \in Ids |-> IF i = r THEN 1 ELSE 0]
  /\ pendItems = [i \in Ids |-> [a \in Accounts |-> 0]]
  /\ apprQ = [i \in Ids |-> 0]
  /\ pc = [p \in Procs |-> IF p = "pol" THEN "hc_upd2_read" ELSE "idle"]
  /\ cur = [p \in Procs |-> IF p = "pol" THEN r ELSE None]
  /\ rec = [p \in Procs |-> IF p = "pol" THEN SubmittedRecord(mt) ELSE NoRec]
  /\ item = [p \in Procs |-> IF p = "pol"
               THEN [SubmittedRecord(mt) EXCEPT
                       !.generation_status = "completed", !.blob_url = TRUE]
               ELSE NoRec]
  /\ arg = [p \in Procs |-> IF p = "pol"
              THEN [NoArg EXCEPT !.verdict = "APPROVED", !.status = "approved",
                                 !.l1 = "passed", !.llm = TRUE]
              ELSE NoArg]
  /\ res = NoRes
  /\ pitems = <<>>
  /\ hist = [i \in Ids |-> IF i = r
               THEN [NoHist EXCEPT !.jobs = 1, !.uploads = 1] ELSE NoHist]

\* a record approved right after its submission (approve_item does not look at
\* generation_status): the generation message is still in its queue, the
\* approval is forwarded, the review gate has not run
ApprovedEarly(r, mt) ==
  /\ store = [i \in Ids |-> IF i = r
                THEN [NewRecord(mt) EXCEPT !.approval_status = "approved",
                                           !.reviewed_at = TRUE]
                ELSE NoRec]
  /\ created = {r}
  /\ genQ = [i \in Ids |-> IF i = r THEN 1 ELSE 0]
  /\ pendQ = [i \in Ids |-> 0]
  /\ pendItems = [i \in Ids |-> [a \in Accounts |-> 0]]
  /\ apprQ = [i \in Ids |-> IF i = r THEN 1 ELSE 0]
  /\ pc = [p \in Procs |-> "idle"]
  /\ cur = [p \in Procs |-> None]
  /\ rec = [p \in Procs |-> NoRec]
  /\ item = [p \in Procs |-> NoRec]
  /\ arg = [p \in Procs |-> NoArg]
  /\ res = NoRes
  /\ pitems = <<>>
  /\ hist = [i \in Ids |-> IF i = r
               THEN [NoHist EXCEPT !.approvedWritten = TRUE] ELSE NoHist]

\* the record from its enqueue for human review on: approval, publishing,
\* the communicator and queue_for_review beside the end of _handle_completed;
\* or a record approved before its generation
InitPublish ==
  \/ /\ \E r \in Ids, mt \in MediaTypes : Enqueued(r, mt)
     /\ budget = [apv |-> MaxPublishApprovals, extra |-> MaxExtraCalls]
  \/ /\ \E r \in Ids, mt \in MediaTypes : ApprovedEarly(r, mt)
     /\ budget = [apv |-> 0, extra |-> MaxExtraCalls]

HandleCompletedEnd ==
  \/ \E f \in BOOLEAN : _handle_completed_final_read("pol", f)
  \/ _handle_completed_final_write("pol")

NextPublish ==
  \/ HandleCompletedEnd
  \/ Approver
  \/ Publisher
  \/ Communicator
  \/ QueueForReview
  \/ Redelivery

SpecPublish == InitPublish /\ [][NextPublish]_vars

\* the record from its enqueue for human review on: concurrent calls of the
\* approver tools beside the communicator and the end of _handle_completed
InitReview ==
  /\ \E r \in Ids, mt \in MediaTypes : Enqueued(r, mt)
  /\ budget = [NoBudget EXCEPT !.apv = MaxApproverCalls]

NextReview ==
  \/ HandleCompletedEnd
  \/ Approver
  \/ Communicator

SpecReview == InitReview /\ [][NextReview]_vars

\* _handle_completed has returned: the record waits for its human review
AwaitingReview(r, mt) ==
  /\ store = [i \in Ids |-> IF i = r
                THEN [SubmittedRecord(mt) EXCEPT
                        !.generation_status = "completed", !.blob_url = TRUE,
                        !.media_review_status = "approved",
                        !.media_reviewed_at = TRUE]
                ELSE NoRec]
  /\ created = {r}
  /\ genQ = [i \in Ids |-> 0]
  /\ pendQ = [i \in Ids |-> IF i = r THEN 1 ELSE 0]
  /\ pendItems = [i \in Ids |-> [a \in Accounts |-> 0]]
  /\ apprQ = [i \in Ids |-> 0]
  /\ pc = [p \in Procs |-> "idle"]
  /\ cur = [p \in Procs |-> None]
  /\ rec = [p \in Procs |-> NoRec]
  /\ item = [p \in Procs |-> NoRec]
  /\ arg = [p \in Procs |-> NoArg]
  /\ res = NoRes
  /\ pitems = <<>>
  /\ hist = [i \in Ids |-> IF i = r
               THEN [NoHist EXCEPT !.jobs = 1, !.uploads = 1] ELSE NoHist]

\* the record waiting for its human review, with the status queries of the
\* tools beside approval, the communicator and queue_for_review of either
\* account
InitStatus ==
  /\ \E r \in Ids, mt \in MediaTypes : AwaitingReview(r, mt)
  /\ budget = [apv |-> MaxPublishApprovals, extra |-> MaxExtraCalls]

NextStatus ==
  \/ Approver
  \/ Communicator
  \/ AccountQueueForReview
  \/ StatusQuery

SpecStatus == InitStatus /\ [][NextStatus]_vars

\* the record waiting for its human review while the tools of two accounts
\* call queue_for_review and the status queries on it
InitAccess ==
  /\ \E r \in Ids, mt \in MediaTypes : AwaitingReview(r, mt)
  /\ budget = [NoBudget EXCEPT !.extra = MaxAccountCalls]

NextAccess ==
  \/ Communicator
  \/ AccountQueueForReview
  \/ StatusQuery

SpecAccess == InitAccess /\ [][NextAccess]_vars

\* a content ID without a record: each queue holds a message for it (the
\* queues keep what was sent, the record is gone), and approve_item, reject_item
\* or request_edits may have read the record before delete_media_metadata, the
\* rollback of a failed submission, removed it (kind # "")
Orphaned(r, kind) ==
  /\ store = [i \in Ids |-> NoRec]
  /\ created = {r}
  /\ genQ = [i \in Ids |-> IF i = r THEN 1 ELSE 0]
  /\ pendQ = [i \in Ids |-> IF i = r THEN 1 ELSE 0]
  /\ pendItems = [i \in Ids |-> [a \in Accounts |-> 0]]
  /\ apprQ = [i \in Ids |-> IF i = r THEN 1 ELSE 0]
  /\ pc = [p \in Procs |-> IF p = "apv1" /\ kind # "" THEN "apv_upd_read" ELSE "idle"]
  /\ cur = [p \in Procs |-> IF p = "apv1" /\ kind # "" THEN r ELSE None]
  /\ rec = [p \in Procs |-> NoRec]
  /\ item = [p \in Procs |-> NoRec]
  /\ arg = [p \in Procs |-> IF p = "apv1" /\ kind # ""
              THEN [NoArg EXCEPT !.kind = kind, !.found = "pending"]
              ELSE NoArg]
  /\ res = NoRes
  /\ pitems = <<>>
  /\ hist = [i \in Ids |-> NoHist]

InitMissing ==
  /\ \E r \in Ids, kind \in ApproverKinds \cup {""} : Orphaned(r, kind)
  /\ budget = [apv |-> MaxPipelineApprovals, extra |-> MaxAccountCalls]

\* what the workers and the tools do for such a content ID
NextMissing ==
  \/ \E r \in Ids : _listen_queue_receive(r)
  \/ _listen_queue_complete
  \/ \E r \in Ids, imported \in BOOLEAN : _process_read(r, imported)
  \/ _process_complete
  \/ \E r \in Ids : publish_content_by_id_call(r)
  \/ \E p \in PublishProcs : publish_content_by_id_read(p)
  \/ \E p \in ApproverProcs, k \in ApproverKinds, r \in Ids, n \in Notes :
       approver_read(p, k, r, n)
  \/ \E p \in ApproverProcs : set_approval_status_read(p)
  \/ \E r \in Ids, ok \in BOOLEAN : communicator_process_read(r, ok)
  \/ \E k \in Accounts \cup {None} : communicator_complete(k)
  \/ \E r \in Ids, a \in Accounts : queue_for_review_read(r, a)
  \/ \E ok \in BOOLEAN : queue_for_review_send(ok)
  \/ \E r \in Ids : view_details(r)
  \/ \E r \in Ids : get_content_details(r)
  \/ \E r \in Ids, a \in Accounts : insta_account_get_review_status(r, a)
  \/ \E r \in Ids, a \in Accounts : get_review_status(r, a)

SpecMissing == InitMissing /\ [][NextMissing]_vars

(* ---- one image record when nothing fails ------------------------------------ *)
\* a safety answer below the threshold in every category
SafeAnswer ==
  [raised |-> FALSE, sev |-> [c \in GateCategories |-> SEVERITY_THRESHOLD - 1]]

\* the human approves a record that is in human review: the gate has approved
\* it and its review-pending message is sent
HumanApproves(r) ==
  /\ store[r].media_review_status = "approved"
  /\ pendQ[r] > 0
  /\ approver_read("apv1", "approved", r, "lgtm")

LiveSubmission ==
  \/ \E r \in Ids : generate_media(r, "image")
  \/ generate_media_send(TRUE, FALSE)

LiveListener ==
  \/ \E r \in Ids : _listen_queue_receive(r)
  \/ _submit_generation_provider("async")
  \/ _submit_generation_update_read(FALSE)
  \/ _submit_generation_update_write
  \/ _listen_queue_complete

LivePoller ==
  \/ _check_submitted_items
  \/ _check_submitted_item("completed")
  \/ _handle_completed_fetch("pol", "uploaded")
  \/ _handle_completed_update_read("pol", FALSE)
  \/ _handle_completed_update_write("pol")
  \/ review_gate_read("pol", SafeAnswer, SafeAnswer, "APPROVED")
  \/ review_gate_update_read("pol", FALSE)
  \/ review_gate_update_write("pol")
  \/ _handle_completed_decide("pol")
  \/ _handle_completed_send("pol", TRUE)
  \/ _handle_completed_final_read("pol", FALSE)
  \/ _handle_completed_final_write("pol")

LiveApproval ==
  \/ \E r \in Ids : HumanApproves(r)
  \/ set_approval_status_read("apv1")
  \/ set_approval_status_write("apv1")
  \/ approve_item_send("apv1", TRUE)

LivePublisher ==
  \/ \E r \in Ids : _process_read(r, TRUE)
  \/ publish_content_by_id_read("pw")
  \/ _publish_record_api("pw", "published")
  \/ mark_content_published_read("pw", FALSE)
  \/ mark_content_published_write("pw")
  \/ _process_complete

InitLive ==
  /\ Fresh
  /\ budget = [NoBudget EXCEPT !.apv = MaxPipelineApprovals]

NextLive ==
  \/ LiveSubmission
  \/ LiveListener
  \/ LivePoller
  \/ LiveApproval
  \/ LivePublisher

\* every external call succeeds, the provider completes the job, both review
\* layers pass, the human approves once; the tool call, the two loops of the
\* generation worker, the approver call and the publisher worker each go on
\* whenever they can
SpecLive ==
  /\ InitLive
  /\ [][NextLive]_vars
  /\ WF_vars(LiveSubmission)
  /\ WF_vars(LiveListener)
  /\ WF_vars(LivePoller)
  /\ WF_vars(LiveApproval)
  /\ WF_vars(LivePublisher)

(* ---- a record the review gate has blocked ------------------------------------ *)
\* _handle_completed has returned after the gate blocked the record: the media
\* is generated and stored, media_review_status is st, nothing was enqueued
Blocked(r, mt, st) ==
  /\ store = [i \in Ids |-> IF i = r
                THEN [SubmittedRecord(mt) EXCEPT
                        !.generation_status = "completed", !.blob_url = TRUE,
                        !.media_review_status = st,
                        !.media_reviewed_at = TRUE]
                ELSE NoRec]
  /\ created = {r}
  /\ genQ = [i \in Ids |-> 0]
  /\ pendQ = [i \in Ids |-> 0]
  /\ pendItems = [i \in Ids |-> [a \in Accounts |-> 0]]
  /\ apprQ = [i \in Ids |-> 0]
  /\ pc = [p \in Procs |-> "idle"]
  /\ cur = [p \in Procs |-> None]
  /\ rec = [p \in Procs |-> NoRec]
  /\ item = [p \in Procs |-> NoRec]
  /\ arg = [p \in Procs |-> NoArg]
  /\ res = NoRes
  /\ pitems = <<>>
  /\ hist = [i \in Ids |-> IF i = r
               THEN [NoHist EXCEPT !.jobs = 1, !.uploads = 1] ELSE NoHist]

\* the blocked record with the approver tools and every publishing path
InitBlocked ==
  /\ \E r \in Ids, mt \in MediaTypes, st \in {"rejected", "needs_revision"} :
       Blocked(r, mt, st)
  /\ budget = [apv |-> MaxPublishApprovals, extra |-> MaxExtraCalls]

NextBlocked ==
  \/ Approver
  \/ Publisher

SpecBlocked == InitBlocked /\ [][NextBlocked]_vars

(* ---- the poll loop over two submitted records -------------------------------- *)
\* the container holds two submitted records, OlderId submitted first
PollIds == {OlderId} \cup Ids

TwoSubmitted(mt) ==
  /\ store = [i \in PollIds |-> SubmittedRecord(mt)]
  /\ created = PollIds
  /\ genQ = [i \in PollIds |-> 0]
  /\ pendQ = [i \in PollIds |-> 0]
  /\ pendItems = [i \in PollIds |-> [a \in Accounts |-> 0]]
  /\ apprQ = [i \in PollIds |-> 0]
  /\ pc = [p \in Procs |-> "idle"]
  /\ cur = [p \in Procs |-> None]
  /\ rec = [p \in Procs |-> NoRec]
  /\ item = [p \in Procs |-> NoRec]
  /\ arg = [p \in Procs |-> NoArg]
  /\ res = NoRes
  /\ pitems = <<>>
  /\ hist = [i \in PollIds |-> [NoHist EXCEPT !.jobs = 1]]

InitPoll ==
  /\ \E mt \in MediaTypes : TwoSubmitted(mt)
  /\ budget = NoBudget

\* the status call: the job of a record of Ids has completed, the job of the
\* older record is in any state, or its status call raises
PollStatus ==
  \E st \in StatusAnswers :
    /\ pitems # <<>>
    /\ Head(pitems).id \in Ids => st = "completed"
    /\ _check_submitted_item(st)

\* result, download and upload: they succeed for a record of Ids and fail for
\* the older record
PollFetch ==
  \E o \in FetchOutcomes :
    /\ o = "uploaded" <=> cur["pol"] \in Ids
    /\ _handle_completed_fetch("pol", o)

\* after its upload the store update succeeds; the gate that follows ends in
\* any way, the enqueue after it succeeds
PollHandleCompleted ==
  \/ _handle_completed_update_read("pol", FALSE)
  \/ _handle_completed_update_write("pol")
  \/ \E img \in SafetyAnswers, txt \in SafetyAnswers, llm \in LLMAnswers :
       review_gate_read("pol", img, txt, llm)
  \/ \E f \in BOOLEAN : review_gate_update_read("pol", f)
  \/ review_gate_update_write("pol")
  \/ _handle_completed_decide("pol")
  \/ _handle_completed_send("pol", TRUE)
  \/ _handle_completed_final_read("pol", FALSE)
  \/ _handle_completed_final_write("pol")

NextPoll ==
  \/ _check_submitted_items
  \/ PollStatus
  \/ PollFetch
  \/ PollHandleCompleted

\* _poll_progress: while True, a tick every poll interval, each tick run to
\* its end or to its exception
SpecPoll == InitPoll /\ [][NextPoll]_vars /\ WF_vars(NextPoll)

(* ---- ReviewQueueService beside queue_for_review ----------------------------- *)
TransitionItem ==
  \/ \E r \in Ids, k \in ApproverKinds, n \in Notes, a \in Accounts :
       _transition_item_receive(r, k, n, a)
  \/ \E ok \in BOOLEAN : _transition_item_complete(ok)
  \/ \E f \in BOOLEAN : _transition_item_update_read(f)
  \/ _transition_item_update_write
  \/ \E ok \in BOOLEAN : _transition_item_send(ok)

\* the record waits for its human review; queue_for_review puts items for it
\* into the review-pending queue and the reviewer decides on them through
\* ReviewQueueService
InitTransition ==
  /\ \E r \in Ids, mt \in MediaTypes : AwaitingReview(r, mt)
  /\ budget = [apv |-> MaxApproverCalls, extra |-> MaxAccountCalls]

NextTransition ==
  \/ AccountQueueForReview
  \/ TransitionItem

SpecTransition == InitTransition /\ [][NextTransition]_vars

(* ---- the communicator beside redeliveries ----------------------------------- *)
\* the record waits for its human review with its review-pending message in
\* the queue: the communicator, whose store update can fail, beside a
\* redelivery and an approver call
InitNotify ==
  /\ \E r \in Ids, mt \in MediaTypes : AwaitingReview(r, mt)
  /\ budget = [apv |-> MaxPublishApprovals, extra |-> MaxExtraCalls]

NextNotify ==
  \/ Communicator
  \/ communicator_update_raises
  \/ Redelivery
  \/ Approver

SpecNotify == InitNotify /\ [][NextNotify]_vars

(* ---- content reviewer: review_text ------------------------------------------ *)
\* what the safety service can answer on its whole scale: it raises, or it
\* returns a severity for each category of its analysis
SeverityAnswers ==
  {[raised |-> TRUE, sev |-> [c \in {} |-> 0]]} \cup
  {[raised |-> FALSE, sev |-> f] :
     f \in UNION {[S -> 0..MaxSeverity] : S \in SUBSET SafetyCategories}}

\* analyze_text: the SafetyResult with its categories dict
analyze_text(a) ==
  LET s == analyze(a)
  IN [safe |-> s.safe,
      categories |-> IF a.raised THEN [c \in {} |-> 0] ELSE a.sev,
      blocked_categories |-> s.blocked_categories,
      error |-> s.error]

\* review_text(text): blank text is refused; a text the safety analysis blocks
\* is REJECTED without the LLM; otherwise the verdict is the LLM's, as it came
\* (an answer that is not a JSON object makes the tool raise)
review_text(blank, a, llm) ==
  /\ pc["rev"] = "idle"
  /\ budget.extra > 0
  /\ budget' = [budget EXCEPT !.extra = @ - 1]
  /\ LET safety_result == analyze_text(a) IN
       IF blank
       THEN res' = [Result("rev", None, "error", "no_text") EXCEPT
                      !.tool = "review_text"]
       ELSE IF ~safety_result.safe
       THEN res' = [Result("rev", None, "REJECTED", "content_safety") EXCEPT
                      !.tool = "review_text", !.content_safety = safety_result]
       ELSE IF llm = "non_object"
       THEN res' = [Result("rev", None, "raised", "llm") EXCEPT
                      !.tool = "review_text"]
       ELSE res' = [Result("rev", None,
                           IF llm \in {"missing", "non_json", "raise"}
                           THEN "NEEDS_REVISION" ELSE llm, "llm") EXCEPT
                      !.tool = "review_text", !.content_safety = safety_result]
  /\ UNCHANGED <<store, created, genQ, pendQ, pendItems, apprQ, pc, cur, rec, item,
                 arg, pitems, hist>>

InitSafety ==
  /\ Fresh
  /\ budget = [NoBudget EXCEPT !.extra = MaxExtraCalls]

\* the safety service is asked only about a text that is not blank, the LLM
\* only about a text the analysis found safe
NextSafety ==
  \E blank \in BOOLEAN :
    \E a \in IF blank THEN {[raised |-> TRUE, sev |-> [c \in {} |-> 0]]}
              ELSE SeverityAnswers :
      \E llm \in IF ~blank /\ analyze(a).safe THEN LLMAnswers ELSE {"raise"} :
        review_text(blank, a, llm)

\* one call of review_text on any text and any answer of the safety service
SpecSafety == InitSafety /\ [][NextSafety]_vars

PlanSubmission ==
  \/ \E r \in Ids, mt \in MediaTypes : create_content_record(r, mt)
  \/ \E r \in Ids : submit_to_queue_read(r)
  \/ submit_to_queue_write
  \/ \E ok \in BOOLEAN : submit_to_queue_send(ok)
  \/ submit_to_queue_revert_read
  \/ submit_to_queue_revert_write

JobSubmission ==
  \/ \E r \in Ids, mt \in MediaTypes : submit_generation_job(r, mt)
  \/ _mark_job_status_read
  \/ _mark_job_status_write
  \/ \E ok \in BOOLEAN : _execute_job(ok)

\* every way a record is created and generated: the three submission paths,
\* the generation worker with duplicate deliveries and a failing receive
InitGenerate ==
  /\ Fresh
  /\ budget = [NoBudget EXCEPT !.extra = MaxExtraCalls]

NextGenerate ==
  \/ Submission
  \/ PlanSubmission
  \/ JobSubmission
  \/ Listener
  \/ _listen_queue_receive_raises
  \/ Poller
  \/ HandleCompleted
  \/ ReviewGate
  \/ Redelivery

SpecGenerate == InitGenerate /\ [][NextGenerate]_vars

WorkerCrash ==
  \/ worker_crash
  \/ start_media_generation_worker

\* the same with a worker whose process may end at any point of a handler and
\* be started again
NextCrash ==
  \/ NextGenerate
  \/ WorkerCrash

SpecCrash == InitGenerate /\ [][NextCrash]_vars

\* SpecPublish starts in a state of the generation pipeline
EnqueuedReached == \E r \in Ids, mt \in MediaTypes : Enqueued(r, mt)

\* and in a state of the pipeline with the approval gate beside it (but for
\* the value the approving call has just returned)
ApprovedEarlyReached ==
  \E r \in Ids, mt \in MediaTypes :
    /\ store[r] = [NewRecord(mt) EXCEPT !.approval_status = "approved",
                                       !.reviewed_at = TRUE]
    /\ genQ[r] = 1 /\ apprQ[r] = 1 /\ pendQ[r] = 0
    /\ \A p \in Procs : pc[p] = "idle"
    /\ hist[r] = [NoHist EXCEPT !.approvedWritten = TRUE]


(* ---- the claims --------------------------------------------------------------- *)
\* a publish attempt of p is late: it began after a publish of the record had
\* been written to the store
Late(p) == pc[p] # "idle" /\ arg[p].late

\* C1: after a publish attempt for a content ID has succeeded, no later publish
\* attempt for it (a duplicate delivery to the Publisher Worker, another call
\* of publish_content_by_id) calls the external publish API: a late attempt
\* never takes the step that calls it
C1_NoPublishAfterPublished ==
  [][\A p \in PublishProcs :
       (Late(p) /\ pc[p] = "pub_api") => pc'[p] = "pub_api"]_vars

\* C2: publish_status becomes 'published' only while approval_status is
\* 'approved': it is 'approved' before the step that marks the record
\* published and still 'approved' after it
C2_PublishedOnlyWhileApproved ==
  [][\A r \in Ids :
       (store[r].publish_status # "published"
          /\ store'[r].publish_status = "published") =>
         /\ store[r].approval_status = "approved"
         /\ store'[r].approval_status = "approved"]_vars

\* C3: once a record is persisted with publish_status 'published', no step of
\* any writer leaves it with publish_status 'pending'
C3_PublishedStaysPublished ==
  [][\A r \in Ids :
       (store[r].ex /\ store[r].publish_status = "published") =>
         store'[r].publish_status # "pending"]_vars

\* C4: approval_status leaves 'pending' (to approved, rejected or
\* edit_requested) only in a state where generation_status is 'completed'
C4_ApprovalOnlyAfterCompleted ==
  [][\A r \in Ids :
       (store[r].ex /\ store[r].approval_status = "pending"
          /\ store'[r].approval_status \in ApproverKinds) =>
         store[r].generation_status = "completed"]_vars

\* C5: when the safety-service call or the LLM call raised during the gate,
\* the media_review_status the gate persists is never 'approved' (the claim
\* asks for 'needs_revision', which is more)
C5_RaiseNeverApproved ==
  [][\A p \in GenProcs :
       (pc[p] = "gate_upd_write" /\ pc'[p] = "hc_decide" /\ arg[p].raised # {}) =>
         store'[cur[p]].media_review_status # "approved"]_vars

\* the safety analysis reports a category at or above the threshold
AtOrAbove(a) ==
  ~a.raised /\ \E c \in GateCategories : a.sev[c] >= SEVERITY_THRESHOLD

C7_EnqueueOnlyIfApproved ==
  [][\A p \in GenProcs :
       (pc[p] = "hc_send" /\ pendQ'[cur[p]] > pendQ[cur[p]]) =>
         arg[p].verdict = "APPROVED"]_vars

\* C8: a call of an approver tool on a record whose approval_status is not
\* 'pending' returns an error naming the status it found, changes neither the
\* record nor the approved-publish queue and ends; a call goes on to its write
\* only when it found 'pending', so 'approved' is written only by a call that
\* found the record pending
C8_ApproveOnlyFromPending ==
  [][/\ budget'.apv < budget.apv =>
          \/ \E p \in ApproverProcs :
               /\ pc[p] = "idle" /\ pc'[p] = "apv_upd_read"
               /\ store[cur'[p]].approval_status = "pending"
               /\ store' = store /\ apprQ' = apprQ
          \/ /\ res'.proc \in ApproverProcs /\ res'.status = "error"
             /\ res'.detail = IF store[res'.id].ex
                              THEN store[res'.id].approval_status ELSE "not_found"
             /\ store' = store /\ apprQ' = apprQ /\ pc' = pc
     /\ \A p \in ApproverProcs :
          (pc[p] = "apv_upd_write" /\ store' # store) => arg[p].found = "pending"
    ]_vars

\* approve_item on an approved record has returned the error naming 'approved'
C8_Witness ==
  /\ res.proc \in ApproverProcs /\ res.status = "error" /\ res.detail = "approved"
  /\ store[res.id].approval_status = "approved"

\* C9: approve_item persists approval_status 'approved' with the review
\* timestamp and the notes before it sends, and then sends one message: a
\* message is in the approved-publish queue only after 'approved' was written
\* to the record, the write carries timestamp and notes and sends nothing, and
\* a call that reports the item forwarded has added exactly one message
C9_ApprovedBeforeMessage ==
  /\ [](\A r \in Ids : apprQ[r] > 0 => hist[r].approvedWritten)
  /\ [][\A p \in ApproverProcs :
          /\ (pc[p] = "apv_upd_write" /\ pc'[p] = "apv_send") =>
               /\ store'[cur[p]].approval_status = "approved"
               /\ store'[cur[p]].reviewed_at
               /\ store'[cur[p]].reviewer_notes = arg[p].notes
               /\ apprQ' = apprQ
          /\ (pc[p] = "apv_send" /\ pc'[p] # "apv_send") =>
               /\ pc'[p] = "idle"
               /\ apprQ' = IF res'.detail = "forwarded"
                           THEN [apprQ EXCEPT ![cur[p]] = @ + 1] ELSE apprQ]_vars

\* approve_item has forwarded a record it wrote as approved, with its notes
C9_Witness ==
  \E r \in Ids :
    /\ apprQ[r] = 1 /\ res.id = r /\ res.detail = "forwarded"
    /\ store[r].approval_status = "approved" /\ store[r].reviewed_at
    /\ store[r].reviewer_notes = "lgtm"

\* C10: when the send to the approved-publish queue fails after approve_item
\* wrote 'approved', the call changes nothing in the store (no rollback), adds
\* no message and still reports the item as approved
C10_SendFailureKeepsApproval ==
  [][\A p \in ApproverProcs :
       (pc[p] = "apv_send" /\ pc'[p] # "apv_send" /\ apprQ' = apprQ) =>
         /\ store' = store
         /\ hist[cur[p]].approvedWritten
         /\ res' = Result(p, cur[p], "approved", "forward_failed")]_vars

\* the send failed: the record is approved, the queue holds no message for it
\* and the call reported it approved
C10_Witness ==
  /\ res.proc \in ApproverProcs /\ res.status = "approved"
  /\ res.detail = "forward_failed"
  /\ store[res.id].approval_status = "approved"
  /\ apprQ[res.id] = 0

\* C11: reject_item and request_edits on a pending record change only
\* approval_status, the review timestamp and the reviewer notes: the step that
\* writes the rejection or the edit request sends nothing to any queue and
\* leaves generation_status, media_review_status and publish_status of the
\* record as they are in the store
C11_RejectChangesOnlyApproval ==
  [][\A p \in ApproverProcs :
       (/\ pc[p] = "apv_upd_write" /\ pc'[p] # "apv_upd_write"
        /\ arg[p].kind \in {"rejected", "edit_requested"}) =>
         /\ genQ' = genQ /\ pendQ' = pendQ /\ apprQ' = apprQ
         /\ store'[cur[p]].generation_status = store[cur[p]].generation_status
         /\ store'[cur[p]].media_review_status = store[cur[p]].media_review_status
         /\ store'[cur[p]].publish_status = store[cur[p]].publish_status]_vars

\* the message the listener is handling was delivered for a record it read as
\* already submitted or completed
Redelivered ==
  /\ pc["lis"] \notin {"idle", "dead"}
  /\ rec["lis"].ex
  /\ rec["lis"].generation_status \in {"submitted", "completed"}

\* C12: delivering a generation-queue message for a record whose
\* generation_status is already 'submitted' or 'completed' creates no provider
\* job, performs no blob upload and leaves the record unchanged: the listener
\* goes straight to completing the message, and neither step writes to the
\* store or starts a job or an upload
C12_DuplicateDeliveryIsNoOp ==
  [][/\ (/\ pc["lis"] = "idle" /\ pc'["lis"] \notin {"idle", "dead"}
         /\ store[cur'["lis"]].ex
         /\ store[cur'["lis"]].generation_status \in {"submitted", "completed"}) =>
          /\ pc'["lis"] = "lis_complete"
          /\ store' = store /\ hist' = hist
     /\ (Redelivered /\ pc'["lis"] # pc["lis"]) =>
          /\ pc["lis"] = "lis_complete" /\ pc'["lis"] = "idle"
          /\ store' = store /\ hist' = hist]_vars

\* a duplicate of the generation message was delivered after the job had been
\* submitted: the listener skipped it, the record is still 'submitted' with
\* its one job
C12_Witness ==
  /\ Redelivered /\ pc["lis"] = "lis_complete"
  /\ rec["lis"].generation_status = "submitted"
  /\ store[cur["lis"]].generation_status = "submitted"
  /\ hist[cur["lis"]].jobs = 1 /\ hist[cur["lis"]].uploads = 0

\* C13: every content record is created exactly once, by the submission
\* operation, and its first persisted state has generation_status 'queued'
\* with approval_status, media_review_status and publish_status 'pending': a
\* step that brings a record into the store is the create step of the
\* submission, for an ID not used before, and writes exactly these statuses
C13_CreatedOnceAsQueued ==
  [][\A r \in Ids :
       (~store[r].ex /\ store'[r].ex) =>
         /\ r \notin created
         /\ pc["sub"] = "idle" /\ pc'["sub"] = "sub_send" /\ cur'["sub"] = r
         /\ store'[r].generation_status = "queued"
         /\ store'[r].approval_status = "pending"
         /\ store'[r].media_review_status = "pending"
         /\ store'[r].publish_status = "pending"]_vars

\* C14: when the send of the generation message fails after the record was
\* created, the submission deletes the record and reports an error, so the
\* store holds no record for that ID after a failed submission; and a record
\* leaves the store in no other step
C14_FailedSubmissionLeavesNoRecord ==
  [][/\ (pc["sub"] = "sub_send" /\ pc'["sub"] = "idle" /\ genQ' = genQ) =>
          /\ res' = Result("sub", cur["sub"], "error", "queue")
          /\ ~store'[cur["sub"]].ex
     /\ \A r \in Ids :
          (store[r].ex /\ ~store'[r].ex) =>
            (pc["sub"] = "sub_send" /\ cur["sub"] = r /\ genQ' = genQ)]_vars

\* the changes of generation_status the state machine allows
AllowedGenerationMoves ==
  {<<"queued", "submitted">>, <<"submitted", "completed">>,
   <<"submitted", "failed">>, <<"queued", "completed">>}

\* C15: generation_status of a record changes only along queued -> submitted
\* -> completed or failed (queued -> completed directly for synchronous
\* generation, inside the listener's submit call): it never moves backwards
\* and never leaves 'completed' or 'failed'
C15_GenerationStatusForward ==
  [][\A r \in Ids :
       (/\ store[r].ex /\ store'[r].ex
        /\ store'[r].generation_status # store[r].generation_status) =>
         /\ <<store[r].generation_status, store'[r].generation_status>>
              \in AllowedGenerationMoves
         /\ (store[r].generation_status = "queued"
               /\ store'[r].generation_status = "completed") =>
              pc["lis"] = "lis_sync_upd_write"]_vars

\* C16: when the provider reports failure for a submitted job (the status
\* check or the result retrieval raises), the poll loop sets generation_status
\* of the record to 'failed'; 'failed' is terminal: the status stays and no
\* further job is submitted for the record
C16_ProviderFailureMarksFailed ==
  [][/\ (/\ res'.proc = "pol" /\ res'.status = "raised"
         /\ res'.detail \in {"status", "result"}) =>
          store'[res'.id].generation_status = "failed"
     /\ \A r \in Ids :
          (store[r].ex /\ store[r].generation_status = "failed") =>
            /\ store'[r].generation_status = "failed"
            /\ hist'[r].jobs = hist[r].jobs]_vars

\* C17: each completed generation has exactly one upload to durable storage:
\* over all poll ticks, redeliveries and retries upload_blob runs at most once
\* for a record, and a record that is 'completed' and that no handler of the
\* worker is still working on has had exactly one upload
C17_ExactlyOneUpload ==
  \A r \in Ids :
    /\ hist[r].uploads <= 1
    /\ (/\ store[r].ex /\ store[r].generation_status = "completed"
        /\ \A p \in GenProcs : cur[p] # r) =>
         hist[r].uploads = 1

\* the loops the workers' threads run
WorkerLoops == {"lis", "pol", "pw"}

\* C18: no exception raised while handling an item or during a receive or
\* poll tick terminates a worker loop: the generation submit loop, the
\* generation poll loop and the publisher worker loop are never ended, whatever
\* fails
C18_LoopsSurvive == \A p \in WorkerLoops : pc[p] # "dead"

\* the stored record allows the Publisher Worker to publish it
Publishable(d) ==
  /\ d.ex
  /\ d.approval_status = "approved"
  /\ d.media_review_status = "approved"
  /\ d.publish_status # "published"

\* C19: for every approved-publish message the Publisher Worker reloads the
\* record by the content ID and goes on towards the publish provider exactly
\* when the stored record has approval_status 'approved', media_review_status
\* 'approved' and publish_status other than 'published' (the decision is a
\* function of the stored record alone); before the provider is called the
\* record is read once more and must be 'approved' and not 'published'; and
\* the provider is called from no other place
C19_PublishOnlyVerifiedRecord ==
  [][/\ (pc["pw"] = "idle" /\ pc'["pw"] # "idle") =>
          /\ apprQ[cur'["pw"]] > 0
          /\ pc'["pw"] = IF Publishable(store[cur'["pw"]])
                         THEN "pub_read" ELSE "pw_complete"
     /\ (pc["pw"] # "pub_api" /\ pc'["pw"] = "pub_api") =>
          /\ pc["pw"] = "pub_read"
          /\ store[cur["pw"]].ex
          /\ store[cur["pw"]].approval_status = "approved"
          /\ store[cur["pw"]].publish_status # "published"
     /\ (pc["pw"] # "pub_read" /\ pc'["pw"] = "pub_read") => pc["pw"] = "idle"
     /\ \A r \in Ids :
          hist'[r].apiCalls # hist[r].apiCalls =>
            \E p \in PublishProcs :
              pc[p] = "pub_api" /\ cur[p] = r /\ pc'[p] # "pub_api"]_vars

\* the worker has skipped a message for a record that is approved by the human
\* but not by the review gate, without any call of the provider
C19_Witness ==
  /\ pc["pw"] = "pw_complete"
  /\ res = Result("pw", cur["pw"], "skipped", "")
  /\ store[cur["pw"]].approval_status = "approved"
  /\ store[cur["pw"]].media_review_status = "pending"
  /\ store[cur["pw"]].publish_status = "pending"
  /\ hist[cur["pw"]].apiCalls = 0

\* the publish attempt of p is past a successful publish_container call
Marking(p) == pc[p] \in {"pub_mark_read", "pub_mark_write"}

\* C20: a record is persisted with publish_status 'published' and the media
\* ID exactly when publish_container succeeded for it: an attempt whose
\* publish_container call returned a media ID ends with the record
\* 'published' with that ID, an attempt whose provider call raised or failed
\* writes nothing, and no other step makes a record 'published'
C20_PublishedIffApiSucceeded ==
  [][/\ \A p \in PublishProcs :
          /\ (Marking(p) /\ pc'[p] \notin {"pub_mark_read", "pub_mark_write"}) =>
               /\ store'[cur[p]].publish_status = "published"
               /\ store'[cur[p]].instagram_media_id
          /\ (pc[p] = "pub_api" /\ pc'[p] \notin {"pub_api", "pub_mark_read"}) =>
               store' = store
     /\ \A r \in Ids :
          (store[r].publish_status # "published"
             /\ store'[r].publish_status = "published") =>
            \E p \in PublishProcs : pc[p] = "pub_mark_write" /\ cur[p] = r]_vars

\* the errors of a publish attempt that another attempt may get past (the
\* provider call raised: timeout, 5xx; the container poll ran out) and those
\* that are about the record (not approved, no blob_url)
TransientFailures == {"raise", "video_timeout"}
ValidationErrors == {"not_approved", "no_blob_url"}

\* C21: when a publish attempt of the Publisher Worker fails, the worker
\* leaves the message in the queue for redelivery if the failure is transient
\* and completes it if it is a validation error; the failing step leaves the
\* record as it is in the store
C21_FailedPublishAbandonOrComplete ==
  [][/\ (/\ pc["pw"] = "pw_complete" /\ pc'["pw"] # "pw_complete"
         /\ arg["pw"].result # <<>> /\ arg["pw"].result[1] = "error") =>
          /\ arg["pw"].result[2] \in TransientFailures => apprQ' = apprQ
          /\ arg["pw"].result[2] \in ValidationErrors =>
               apprQ'[cur["pw"]] = apprQ[cur["pw"]] - 1
     /\ (/\ pc["pw"] \in {"pub_read", "pub_api"} /\ pc'["pw"] = "pw_complete"
         /\ res'.status = "error") => store' = store]_vars

\* C22: for a reel/video the publisher checks the container status at most 10
\* times and the loop ends (every check counts up or leaves the loop, and the
\* count stays below 10 inside it); publish_container is called only after a
\* check returned FINISHED, and a video is marked only after publish_container;
\* a check that returns ERROR, and the 10th check without FINISHED, end the
\* attempt with an error (the timeout only at the 10th check), without
\* publish_container and without a write to the record
C22_VideoPollBounded ==
  /\ [](\A p \in PublishProcs :
          /\ arg[p].checks <= ContainerChecks
          /\ pc[p] = "pub_poll" => arg[p].checks < ContainerChecks)
  /\ [][\A p \in PublishProcs :
          /\ (pc[p] = "pub_poll" /\ arg'[p] # arg[p] /\ pc'[p] = "pub_poll") =>
               arg'[p].checks = arg[p].checks + 1
          /\ (pc[p] # "pub_publish" /\ pc'[p] = "pub_publish") =>
               /\ pc[p] = "pub_poll" /\ arg'[p].status = "FINISHED"
          /\ (/\ pc[p] # "pub_mark_read" /\ pc'[p] = "pub_mark_read"
              /\ rec[p].media_type = "video") => pc[p] = "pub_publish"
          /\ (pc[p] = "pub_poll" /\ pc'[p] \notin {"pub_poll", "pub_publish"}) =>
               /\ pc'[p] \in {"idle", "pw_complete"}
               /\ res'.proc = p /\ res'.status = "error"
               /\ res'.detail \in {"video_error", "video_timeout", "raise"}
               /\ res'.detail = "video_timeout" =>
                    arg[p].checks = ContainerChecks - 1
               /\ store' = store]_vars

\* an attempt to publish a video has returned the timeout after its 10th
\* check; the record is still pending
C22_Witness ==
  /\ res.proc \in PublishProcs /\ res.status = "error"
  /\ res.detail = "video_timeout"
  /\ store[res.id].media_type = "video"
  /\ store[res.id].publish_status = "pending"
  /\ hist[res.id].apiCalls > 0

\* the listener is handling a message
Handling == pc["lis"] \notin {"idle", "dead", "crashed"}

\* C23: a generation-queue message is completed only after the handling of it
\* returned without error: a message leaves the queue only in the listener's
\* complete step, one at a time, for the content ID in hand; the message in
\* hand stays in the queue while it is handled; a handling that raises ends
\* without the complete step and leaves the queues and the record as they
\* are, so the message can be received again (the listener is idle, the
\* message is in the queue); and a crash of the worker's process leaves
\* queues and store as they are, the message of a handling it interrupted
\* still in the queue
C23_CompletedOnlyAfterReturn ==
  /\ [](Handling => genQ[cur["lis"]] > 0)
  /\ [][/\ \A r \in Ids :
            genQ'[r] < genQ[r] =>
              /\ pc["lis"] = "lis_complete" /\ cur["lis"] = r
              /\ genQ'[r] = genQ[r] - 1
        /\ (res'.proc = "lis" /\ res'.status = "raised" /\ Handling) =>
              /\ pc'["lis"] = "idle"
              /\ genQ' = genQ /\ genQ[res'.id] > 0
              /\ store' = store
        /\ (pc["lis"] # "crashed" /\ pc'["lis"] = "crashed") =>
              /\ genQ' = genQ /\ store' = store
              /\ Handling => genQ'[cur["lis"]] > 0]_vars

\* the first handling of the message did not finish (a provider job exists,
\* the record is still 'queued', the worker was started again or the handler
\* raised) and the message has been delivered again
C23_Witness ==
  /\ pc["lis"] = "lis_generate"
  /\ hist[cur["lis"]].jobs = 1
  /\ store[cur["lis"]].generation_status = "queued"
  /\ genQ[cur["lis"]] = 1

\* C24: a business failure while a generation message is handled (the provider
\* rejects the submission, a synchronous generation returns no image URL, the
\* async submission lacks a request id) ends with the record marked failed
\* and the message completed: the handling never ends on such a failure with
\* the message left in the queue for another delivery and the record not
\* 'failed'
C24_BusinessFailureCompletes ==
  [][(res'.proc = "lis" /\ res'.status = "raised" /\ res'.detail = "provider") =>
       ~(/\ pc'["lis"] = "idle"
         /\ genQ'[res'.id] > 0
         /\ store'[res'.id].generation_status # "failed")]_vars

\* the lifecycle status fields of a document
StatusFields ==
  {"generation_status", "media_review_status", "approval_status", "publish_status"}

\* C25: a status query that returns a dict for a content ID returns, in every
\* lifecycle status field the dict has, the value the Content Store holds for
\* the record at that time
C25_StatusQueriesReflectStore ==
  [][(res'.proc = "qry" /\ res'.status = "ok") =>
       \A f \in StatusFields :
         res'.value[f] # "" => res'.value[f] = store[res'.id][f]]_vars


\* C28: get_review_status of a tool bound to an account never answers with
\* status fields of a record of another account: a call that finds the record
\* with another target_account_id returns 'Access denied' at once; a call goes
\* on to the queue service only for a record it read as its account's; a dict
\* built from the store is built from a record of the caller's account; a
\* dict taken from the queue is the caller's own queue_for_review item
C28_NoCrossAccountStatus ==
  /\ [](pc["qry"] # "idle" =>
          rec["qry"].target_account_id = arg["qry"].account)
  /\ [][(res'.proc = "qry" /\ res'.account # "") =>
          /\ (/\ pc["qry"] = "idle"
              /\ store[res'.id].ex
              /\ store[res'.id].target_account_id # res'.account) =>
                (res'.status = "error" /\ res'.detail = "access_denied")
          /\ (res'.status = "ok" /\ res'.detail = "store") =>
                store[res'.id].target_account_id = res'.account
          /\ (res'.status = "ok" /\ res'.detail = "queue") =>
                /\ res'.value.target_account_id = res'.account
                /\ rec["qry"].target_account_id = res'.account]_vars

\* a bound get_review_status has just refused a record of another account
\* while the review-pending queue holds an item of that other account
C28_Witness ==
  /\ res.proc = "qry" /\ res.status = "error" /\ res.detail = "access_denied"
  /\ res.account # ""
  /\ store[res.id].ex
  /\ store[res.id].target_account_id # res.account
  /\ pendItems[res.id][store[res.id].target_account_id] > 0


\* where a process stands after it found no record: back in its loop, or about
\* to complete its message, to read for publish_content_by_id or
\* set_approval_status, or (queue_for_review) to send
NotFoundPositions ==
  {"idle", "lis_complete", "pw_complete", "pub_read", "apv_upd_read",
   "com_complete", "qfr_send"}

C29_OneJobWhenSequential ==
  \A r \in Ids : hist[r].jobs <= 1


\* C30: the worker's update at the end of a generation writes blob_url,
\* generation_status 'completed', media_review_status 'pending' and
\* approval_status 'pending' together; the review gate is invoked only after
\* it, so the record the gate reads has a blob_url; and the worker sends to
\* review-pending only with the result of a gate that ran both layers in hand
C30_CompletedThenGateThenEnqueue ==
  /\ [](\A p \in GenProcs :
          pc[p] = "gate_read" => store[cur[p]].ex /\ store[cur[p]].blob_url)
  /\ [][\A p \in GenProcs :
          /\ (pc[p] = "hc_upd1_write" /\ pc'[p] = "gate_read") =>
                /\ store'[cur[p]].blob_url
                /\ store'[cur[p]].generation_status = "completed"
                /\ store'[cur[p]].media_review_status = "pending"
                /\ store'[cur[p]].approval_status = "pending"
          /\ (pc'[p] = "gate_read" /\ pc[p] # "gate_read") =>
                pc[p] \in {"hc_upd1_read", "hc_upd1_write"}
          /\ (pc[p] = "hc_send" /\ pendQ'[cur[p]] > pendQ[cur[p]]) =>
                arg[p].l1 = "passed" /\ arg[p].llm
          /\ \A r \in Ids :
                (cur[p] = r /\ pc[p] # "hc_send" /\ pc'[p] # pc[p]) =>
                  pendQ'[r] = pendQ[r]]_vars


\* C26: when no external call fails and the workers are scheduled fairly, an
\* image record that is submitted, generated, passed by both review layers
\* and approved by the human while it is pending is eventually published with
\* an instagram_media_id, and on the way the gate approves only a completed
\* record and the human only a record the gate approved
C26_ApprovedImageIsPublished ==
  /\ \A r \in Ids :
       store[r].ex ~> (/\ store[r].publish_status = "published"
                       /\ store[r].instagram_media_id)
  /\ [][\A r \in Ids :
          /\ (store'[r].media_review_status = "approved"
                 /\ store[r].media_review_status # "approved") =>
               store[r].generation_status = "completed"
          /\ (store'[r].approval_status = "approved"
                 /\ store[r].approval_status # "approved") =>
               store[r].media_review_status = "approved"]_vars


\* the status the mapping of the specification gives to an answer of the LLM
\* reviewer (read without regard to case, as the gate does)
MappedVerdict(llm) ==
  IF llm \in {"APPROVED", "approved"} THEN "approved"
  ELSE IF llm = "REJECTED" THEN "rejected"
  ELSE "needs_revision"

\* C31: when layer 1 passes, the media_review_status the gate persists is
\* 'approved' for the verdict APPROVED, 'rejected' for REJECTED and
\* 'needs_revision' for every other verdict, a missing one included
C31_VerdictMapping ==
  /\ [](\A r \in Ids, img \in SafetyAnswers, txt \in SafetyAnswers,
          llm \in LLMAnswers :
          LET rr == review_generated_media(store[r], img, txt, llm) IN
            (rr.l1 = "passed" /\ ~rr.exc) => rr.status = MappedVerdict(llm))
  /\ [][\A p \in GenProcs :
          (pc[p] = "gate_upd_write" /\ pc'[p] = "hc_decide"
             /\ arg[p].l1 = "passed") =>
            /\ store'[cur[p]].media_review_status = MappedVerdict(arg[p].verdict)
            /\ store'[cur[p]].media_review_status = arg[p].status]_vars

\* the gate has persisted 'needs_revision' for a verdict outside the mapping
C31_Witness ==
  \E p \in GenProcs :
    /\ pc[p] = "hc_decide" /\ arg[p].l1 = "passed"
    /\ arg[p].verdict = "UNSURE"
    /\ store[cur[p]].media_review_status = "needs_revision"


\* the answers of the LLM reviewer that are not a well-formed review: an
\* unknown or empty verdict, no verdict, text that is not JSON, JSON that is
\* not an object
MalformedAnswers == {"UNSURE", "", "missing", "non_json", "non_object"}

\* C32: for a non-JSON or malformed answer of the LLM reviewer (unparseable,
\* without a verdict, with an unknown verdict) the gate sets
\* media_review_status to 'needs_revision' and the Generation Worker does not
\* enqueue the record for human review
C32_MalformedIsNeedsRevision ==
  \A r \in Ids, img \in SafetyAnswers, txt \in SafetyAnswers,
     llm \in MalformedAnswers :
    LET rr == review_generated_media(store[r], img, txt, llm) IN
      rr.l1 = "passed" =>
        /\ ~rr.exc
        /\ rr.status = "needs_revision"
        /\ should_block(rr)


\* C33: every run of the gate on an existing record goes on to write, and its
\* write puts the verdict's status on the record together with the reviewed-at
\* timestamp (set_media_review_status writes the notes in the same update),
\* whatever the outcome: a layer-1 rejection, any layer-2 verdict, an error
\* inside the gate, a record without blob_url
C33_GateAlwaysPersists ==
  [][\A p \in GenProcs :
       /\ (pc[p] = "gate_read" /\ pc'[p] # "gate_read" /\ store[cur[p]].ex) =>
            pc'[p] = "gate_upd_read"
       /\ (pc[p] = "gate_upd_read" /\ pc'[p] # "gate_upd_read"
              /\ store[cur[p]].ex) =>
            pc'[p] = "gate_upd_write"
       /\ (pc[p] = "gate_upd_write" /\ pc'[p] # "gate_upd_write"
              /\ store[cur[p]].ex) =>
            /\ store'[cur[p]].media_reviewed_at
            /\ store'[cur[p]].media_review_status = arg[p].status]_vars


\* C34: for every assignment of severities 0..6 to the categories the safety
\* service returns, the analysis is safe exactly when no category has a
\* severity of 2 or more, and blocked_categories is exactly the set of the
\* categories with a severity of 2 or more
C34_SafeIffBelowThreshold ==
  (res.tool = "review_text" /\ res.status \notin {"error", "raised"}
     /\ ~res.content_safety.error) =>
    LET cs == res.content_safety IN
      /\ cs.safe = (\A c \in DOMAIN cs.categories : cs.categories[c] < 2)
      /\ cs.blocked_categories = {c \in DOMAIN cs.categories : cs.categories[c] >= 2}

\* an analysis with one category exactly at the threshold, which is blocked,
\* and one just below it, which is not
C34_Witness ==
  /\ res.tool = "review_text" /\ ~res.content_safety.error
  /\ DOMAIN res.content_safety.categories = SafetyCategories
  /\ res.content_safety.categories["Hate"] = 2
  /\ res.content_safety.categories["Violence"] = 1
  /\ res.content_safety.categories["Sexual"] = 0
  /\ res.content_safety.categories["SelfHarm"] = 6
  /\ res.content_safety.blocked_categories = {"Hate", "SelfHarm"}
  /\ ~res.content_safety.safe


\* C35: when calls of approve_item, reject_item and request_edits on the same
\* pending record interleave between their read and their write, at most one
\* of them succeeds: a call writes its decision only to a record that is
\* still pending at the write, and the approved-publish queue never holds
\* more than one message for the record
C35_OneConcurrentDecision ==
  /\ [](\A r \in Ids : apprQ[r] <= 1)
  /\ [][\A p \in ApproverProcs :
          (pc[p] = "apv_upd_write" /\ store' # store) =>
            store[cur[p]].approval_status = "pending"]_vars


\* C36: no publishing path calls the publish provider for a record whose
\* media_review_status is not 'approved': the record a path has read and
\* checked before its provider call is approved by the review gate, in the
\* tools as in the Publisher Worker
C36_NoPublishWithoutMediaReview ==
  [][\A p \in PublishProcs :
       (pc[p] = "pub_api" /\ pc'[p] # "pub_api") =>
         rec[p].media_review_status = "approved"]_vars


\* C37: in every reachable state a record with generation_status 'completed'
\* has a blob_url, in synchronous image generation too and when the download
\* or the upload fails
C37_CompletedHasBlob ==
  \A r \in Ids :
    (store[r].ex /\ store[r].generation_status = "completed") => store[r].blob_url


\* C38: in the poll loop a submitted record whose provider job has completed
\* and whose own download, upload and store update succeed eventually becomes
\* 'completed', even when an older submitted record fails or stays incomplete
\* on every tick
C38_PollLoopIsolatesFailures ==
  \A r \in Ids :
    IsSubmitted(r) ~> (store[r].generation_status = "completed")


\* C39: ReviewQueueService.approve_item never loses an item: a call that has
\* completed the item's message in the review-pending queue ends, also when
\* the store update or the send fails, with the item in the review-approved
\* queue or still in the review-pending queue
C39_ApproveNeverLosesItem ==
  [][(/\ pc["rqs"] \in {"ti_upd_read", "ti_upd_write", "ti_send"}
      /\ pc'["rqs"] = "idle"
      /\ arg["rqs"].kind = "approved") =>
       \/ apprQ'[cur["rqs"]] > apprQ[cur["rqs"]]
       \/ pendItems'[cur["rqs"]][arg["rqs"].account] > 0]_vars


\* C40: the communicator worker sends at most one review notification per
\* content record, however often the pending-review message is delivered: it
\* sends only for a record it has not notified before, and once
\* auto_notified_for_pending is set a delivery goes straight to completing the
\* message without sending
C40_OneNotificationPerRecord ==
  [][/\ (pc["com"] = "idle" /\ pc'["com"] = "com_upd_read") =>
          ~hist[cur'["com"]].everNotified
     /\ (/\ pc["com"] = "idle" /\ pc'["com"] # "idle"
         /\ store[cur'["com"]].auto_notified_for_pending) =>
          pc'["com"] = "com_complete" /\ hist' = hist]_vars

====
